---- MODULE Spec2Model ----
(***************************************************************************)
(* fitconvert: the conversion pipeline of Convert (parser.cpp), the Sample *)
(* type FitData, the Time/format_timestamp helpers and the in-memory data  *)
(* source, as one state machine.  One Convert call is one behaviour: Init  *)
(* is the state after the locals of Convert are constructed, every action  *)
(* is one pass through the outer loop test, one FitConvert_Read result of  *)
(* the inner loop, or the code after the loops.                            *)
(*                                                                         *)
(* Bit masks (uint32_t available_types, collect_data_types, ...) are       *)
(* modelled as the set of the bit positions that are set: | is \cup, & is  *)
(* \cap, MaskValue gives the number.                                       *)
(***************************************************************************)
EXTENDS Integers, Sequences, FiniteSets, TLC

(***************************************************************************)
(* Bounds of the model.                                                    *)
(***************************************************************************)
\* messages (telemetry or not) the decoder hands out in one call
MaxMessages == 3
\* largest smoothness the caller passes
MaxSmoothness == 2

(***************************************************************************)
(* Program constants.                                                      *)
(***************************************************************************)
kTypeSpeed == 0
kTypeDistance == 1
kTypeHeartRate == 2
kTypeAltitude == 3
kTypePower == 4
kTypeCadence == 5
kTypeTemperature == 6
kTypeTimeStamp == 7
kTypeLatitude == 8
kTypeLongitude == 9
kTypeTimeStampNext == 10
kTypeMax == 11
DataType == 0 .. (kTypeMax - 1)

\* Time: 99 hours in milliseconds
kMaxTimeMs == 356400000
\* Buffer data_buffer(4096u * 16u)
kBufferSize == 65536

\* the invalid markers of the FIT field widths (numeric_limits<T>::max()).
\* 0xFFFFFFFF is outside the range of the checker's integers: it is written
\* as the 32-bit pattern read as a signed number.
FIT_UINT32_INVALID == -1
FIT_UINT16_INVALID == 65535
FIT_UINT8_INVALID == 255
FIT_SINT8_INVALID == 127
FIT_SINT32_INVALID == 2147483647

\* 2^64 = q * d + r for the three divisors of Time; only q mod 256 is needed
\* because the quotients are cast to uint8_t
Wrap64QuotMod256(d) == CASE d = 3600000 -> 222 [] d = 60000 -> 33 [] d = 1000 -> 239
Wrap64Rem(d) == CASE d = 3600000 -> 1551616 [] d = 60000 -> 51616 [] d = 1000 -> 616

(***************************************************************************)
(* Inputs of a call, drawn from small sets.                                *)
(***************************************************************************)
OutputTypes == {"json", "vtt", "none"}
Offsets == {-356400001, -500, 0, 1500}
AllTypes == DataType
CollectMasks == {AllTypes, {kTypeSpeed, kTypeHeartRate}}
\* DataSourceMemory count_
SourceSizes == {0, 65537}

\* FIT_RECORD_MESG without its timestamp: one record with the standard altitude
\* and speed fields, one with the enhanced ones
BodyStandard ==
  [distance |-> 123456, heart_rate |-> 100, cadence |-> FIT_UINT8_INVALID,
   power |-> FIT_UINT16_INVALID, altitude |-> 3000,
   enhanced_altitude |-> FIT_UINT32_INVALID, speed |-> 1234,
   enhanced_speed |-> FIT_UINT32_INVALID, temperature |-> 20,
   position_lat |-> FIT_SINT32_INVALID, position_long |-> FIT_SINT32_INVALID]

BodyEnhanced ==
  [distance |-> 129000, heart_rate |-> 103, cadence |-> 80,
   power |-> 250, altitude |-> FIT_UINT16_INVALID,
   enhanced_altitude |-> 2503, speed |-> FIT_UINT16_INVALID,
   enhanced_speed |-> 1260, temperature |-> FIT_SINT8_INVALID,
   position_lat |-> 10, position_long |-> 20]

\* the telemetry records a stream is made of; timestamp is in seconds
RawRecords ==
  { [timestamp |-> 0] @@ BodyStandard, [timestamp |-> 1] @@ BodyEnhanced,
    [timestamp |-> 2] @@ BodyStandard, [timestamp |-> 356400] @@ BodyEnhanced,
    [timestamp |-> 356402] @@ BodyStandard }

(***************************************************************************)
(* Integer helpers.                                                        *)
(***************************************************************************)
\* C++ integer division truncates toward zero
TruncDiv(a, b) == IF (a >= 0) = (b > 0) THEN (IF a >= 0 THEN a ELSE -a) \div (IF b > 0 THEN b ELSE -b)
                  ELSE -((IF a >= 0 THEN a ELSE -a) \div (IF b > 0 THEN b ELSE -b))

Abs(a) == IF a < 0 THEN -a ELSE a

RECURSIVE Pow2(_)
Pow2(n) == IF n = 0 THEN 1 ELSE 2 * Pow2(n - 1)

\* 0x01 << type
DataTypeToMask(type) == {type}

RECURSIVE MaskValue(_)
MaskValue(mask) == IF mask = {} THEN 0
                   ELSE LET b == CHOOSE t \in mask : TRUE
                        IN Pow2(b) + MaskValue(mask \ {b})

(***************************************************************************)
(* struct Time and format_timestamp.                                       *)
(*                                                                         *)
(* ms_remainder is a uint64_t: a number v >= 0 stands for itself, v < 0    *)
(* stands for 2^64 + v (the conversion of a negative int64_t).             *)
(***************************************************************************)
\* static_cast<uint8_t>(ms_remainder / d)
DivCast8(v, d) == IF v >= 0 THEN (v \div d) % 256
                  ELSE (Wrap64QuotMod256(d) + ((Wrap64Rem(d) + v) \div d)) % 256

\* the limit itself refused
TimeThrowsAtLimit(milliseconds_total) == milliseconds_total >= kMaxTimeMs

TimeThrows(milliseconds_total) == milliseconds_total > kMaxTimeMs

Time(milliseconds_total) ==
  LET hours == DivCast8(milliseconds_total, 3600000)
      r1 == milliseconds_total - hours * 3600000
      minutes == DivCast8(r1, 60000)
      r2 == r1 - minutes * 60000
      seconds == DivCast8(r2, 1000)
      milliseconds == (r2 - seconds * 1000) % 65536
  IN [hours |-> hours, minutes |-> minutes, seconds |-> seconds, milliseconds |-> milliseconds]

Digit == <<"0", "1", "2", "3", "4", "5", "6", "7", "8", "9">>

write_2digits(value) == <<Digit[((value \div 10) % 10) + 1], Digit[(value % 10) + 1]>>

write_3digits(value) == <<Digit[(value \div 100) + 1], Digit[((value \div 10) % 10) + 1], Digit[(value % 10) + 1]>>

\* the characters written, <<>> when the function returns 0
format_timestamp(time) ==
  IF time.hours > 99 \/ time.minutes > 99 \/ time.seconds > 99 \/ time.milliseconds > 999
  THEN <<>>
  ELSE write_2digits(time.hours) \o <<":">> \o write_2digits(time.minutes) \o <<":">>
       \o write_2digits(time.seconds) \o <<".">> \o write_3digits(time.milliseconds)

(***************************************************************************)
(* struct FitData: values[kTypeMax] and available_types.                   *)
(***************************************************************************)
\* FitData(): memset(values, 0), available_types{0}
EmptyFitData == [values |-> [t \in DataType |-> 0], available_types |-> {}]

\* the value stored whatever the caller selected
ApplyValueUnselected(fd, type, value, invalid, collect_data_types) ==
  IF value # invalid
  THEN [values |-> [fd.values EXCEPT ![type] = value],
        available_types |-> fd.available_types \cup DataTypeToMask(type)]
  ELSE fd

\* template ApplyValue: invalid is numeric_limits<T>::max() of the field
ApplyValue(fd, type, value, invalid, collect_data_types) ==
  IF value # invalid /\ (collect_data_types \cap DataTypeToMask(type)) # {}
  THEN [values |-> [fd.values EXCEPT ![type] = value],
        available_types |-> fd.available_types \cup DataTypeToMask(type)]
  ELSE fd

\* int64_t has no invalid marker a uint32 second count times 1000 can reach
NoInvalid == -2

ApplyData(rec, collect_data_types) ==
  LET msec == rec.timestamp * 1000
      f0 == EmptyFitData
      f1 == ApplyValue(f0, kTypeTimeStamp, msec, NoInvalid, collect_data_types)
      f2 == ApplyValue(f1, kTypeTimeStampNext, msec, NoInvalid, collect_data_types)
      f3 == ApplyValue(f2, kTypeDistance, rec.distance, FIT_UINT32_INVALID, collect_data_types)
      f4 == ApplyValue(f3, kTypeHeartRate, rec.heart_rate, FIT_UINT8_INVALID, collect_data_types)
      f5 == ApplyValue(f4, kTypeCadence, rec.cadence, FIT_UINT8_INVALID, collect_data_types)
      f6 == ApplyValue(f5, kTypePower, rec.power, FIT_UINT16_INVALID, collect_data_types)
      f7 == ApplyValue(f6, kTypeAltitude, rec.altitude, FIT_UINT16_INVALID, collect_data_types)
      f8 == ApplyValue(f7, kTypeAltitude, rec.enhanced_altitude, FIT_UINT32_INVALID, collect_data_types)
      f9 == ApplyValue(f8, kTypeSpeed, rec.speed, FIT_UINT16_INVALID, collect_data_types)
      f10 == ApplyValue(f9, kTypeSpeed, rec.enhanced_speed, FIT_UINT32_INVALID, collect_data_types)
      f11 == ApplyValue(f10, kTypeTemperature, rec.temperature, FIT_SINT8_INVALID, collect_data_types)
      f12 == ApplyValue(f11, kTypeLatitude, rec.position_lat, FIT_SINT32_INVALID, collect_data_types)
  IN ApplyValue(f12, kTypeLongitude, rec.position_long, FIT_SINT32_INVALID, collect_data_types)

SetValue(fd, type, data) == [fd EXCEPT !.values[type] = data]

GetValue(fd, type) == fd.values[type]

GetTypes(fd) == fd.available_types

\* the difference with the masks intersected
FitDataMinusIntersect(left, right_value) ==
  [values |-> [t \in DataType |-> left.values[t] - right_value.values[t]],
   available_types |-> left.available_types \cap right_value.available_types]

\* FitData::operator-
FitDataMinus(left, right_value) ==
  [values |-> [t \in DataType |-> left.values[t] - right_value.values[t]],
   available_types |-> left.available_types \cup right_value.available_types]

\* FitData::operator+
FitDataPlus(left, right_value) ==
  [values |-> [t \in DataType |-> left.values[t] + right_value.values[t]],
   available_types |-> left.available_types \cup right_value.available_types]

\* operator/ rounding toward minus infinity
FitDataDivFloor(left, divider) ==
  [values |-> [t \in DataType |-> left.values[t] \div divider],
   available_types |-> left.available_types]

\* FitData::operator/
FitDataDiv(left, divider) ==
  [values |-> [t \in DataType |-> TruncDiv(left.values[t], divider)],
   available_types |-> left.available_types]

(***************************************************************************)
(* The formatters.  An entry of the output buffer is                       *)
(* [kind, from, to, body]: from and to are the characters of the two       *)
(* timestamps of a cue, body maps every field written to the number        *)
(* written for it.  Fractions are kept as scaled integers: distance in     *)
(* hundredths, speed in hundredths (JSON, SetMaxDecimalPlaces(2) cuts) or  *)
(* tenths (cue, to_chars with precision 1 rounds).                         *)
(***************************************************************************)
RoundDiv(num, den) == (2 * num + den) \div (2 * den)

\* fields FitData::ExportToJson writes (latitude and longitude are commented out)
JsonTypes == {kTypeTimeStamp, kTypeTimeStampNext, kTypeDistance, kTypeHeartRate, kTypeCadence,
              kTypePower, kTypeAltitude, kTypeSpeed, kTypeTemperature}

JsonValue(fd, t, imp) ==
  LET v == fd.values[t]
  IN CASE t = kTypeDistance -> IF imp THEN (v * 1000) \div 1609344 ELSE v \div 1000
       [] t = kTypeAltitude -> LET altitude_meters == TruncDiv(v - 2500, 5)
                               IN IF imp THEN TruncDiv(altitude_meters * 328084, 100000) ELSE altitude_meters
       [] t = kTypeSpeed -> IF imp THEN (v * 1000000) \div 4472136 ELSE (v * 10000) \div 27777
       [] t = kTypeTemperature -> IF imp THEN TruncDiv(v * 9, 5) + 32 ELSE v
       [] OTHER -> v

ExportToJson(fd, imp) ==
  [kind |-> "record", from |-> <<>>, to |-> <<>>,
   body |-> [t \in (fd.available_types \cap JsonTypes) |-> JsonValue(fd, t, imp)]]

\* fields FitData::ExportToVtt writes below the time line
VttTypes == {kTypeDistance, kTypeSpeed, kTypeHeartRate, kTypeCadence, kTypePower, kTypeTemperature, kTypeAltitude}

VttValue(fd, t, imp) ==
  LET v == fd.values[t]
  IN CASE t = kTypeDistance -> IF imp THEN RoundDiv(v * 1000, 1609344) ELSE RoundDiv(v, 1000)
       [] t = kTypeAltitude -> LET altitude_meters == TruncDiv(v, 5) - 500
                               IN IF imp THEN TruncDiv(altitude_meters * 328084, 100000) ELSE altitude_meters
       [] t = kTypeSpeed -> IF imp THEN RoundDiv(v * 100000, 4472136) ELSE RoundDiv(v * 1000, 27777)
       [] t = kTypeTemperature -> IF imp THEN TruncDiv(v * 9, 5) + 32 ELSE v
       [] OTHER -> v

\* Time time_from / time_to are constructed first: when one throws nothing is written
ExportToVttThrows(fd) == TimeThrows(fd.values[kTypeTimeStamp]) \/ TimeThrows(fd.values[kTypeTimeStampNext])

ExportToVtt(fd, imp) ==
  [kind |-> "cue",
   from |-> format_timestamp(Time(fd.values[kTypeTimeStamp])),
   to |-> format_timestamp(Time(fd.values[kTypeTimeStampNext])),
   body |-> [t \in (fd.available_types \cap VttTypes) |-> VttValue(fd, t, imp)]]

\* the cue "< .fit data is not yet available >" and the cue "< no more .fit data >"
MessageCue(kind, start, end) ==
  [kind |-> kind, from |-> format_timestamp(Time(start)), to |-> format_timestamp(Time(end)), body |-> <<>>]

HeaderEntry == [kind |-> "header", from |-> <<>>, to |-> <<>>, body |-> <<>>]

\* the members written after the records array
JsonTrailer(used, first_ts, off, imp) ==
  [kind |-> "meta", from |-> <<>>, to |-> <<>>,
   body |-> [usedTypes |-> MaskValue(used), timestamp |-> first_ts, offset |-> off,
             units |-> IF imp THEN "imperial" ELSE "metric"]]

\* the Export lambda of Convert, applied to the Samples xs in order.  It is
\* noexcept: the first Sample whose cue throws ends the process.
ExportThrowsAt(xs, out) ==
  IF out = "vtt" /\ \E i \in 1 .. Len(xs) : ExportToVttThrows(xs[i])
  THEN CHOOSE i \in 1 .. Len(xs) : ExportToVttThrows(xs[i]) /\ \A j \in 1 .. (i - 1) : ~ExportToVttThrows(xs[j])
  ELSE 0

\* the lambda writing for json only
ExportWrittenJsonOnly(xs, out, imp) ==
  LET k == ExportThrowsAt(xs, out)
      n == IF k = 0 THEN Len(xs) ELSE k - 1
  IN CASE out = "json" -> [i \in 1 .. n |-> ExportToJson(xs[i], imp)]
       [] OTHER -> <<>>

ExportWritten(xs, out, imp) ==
  LET k == ExportThrowsAt(xs, out)
      n == IF k = 0 THEN Len(xs) ELSE k - 1
  IN CASE out = "json" -> [i \in 1 .. n |-> ExportToJson(xs[i], imp)]
       [] out = "vtt" -> [i \in 1 .. n |-> ExportToVtt(xs[i], imp)]
       [] OTHER -> <<>>

(***************************************************************************)
(* The state of one Convert call.                                          *)
(***************************************************************************)
VARIABLES
  output_type, offset, smoothness, collect_data_types, imperial,  \* the arguments
  count_, position_,             \* DataSourceMemory
  data_size,                     \* data_buffer.GetDataSize()
  fit_status,                    \* last return value of FitConvert_Read
  messages,                      \* messages the decoder has handed out
  used_data_types, file_items, non_msg_counter,
  first_fit_timestamp, first_video_timestamp,
  slots,                         \* the objects new_fit_data and previous_fit_data
  new_fit_data_ptr, previous_fot_data_ptr,
  write_buffer,                  \* the entries written so far
  result,                        \* result->first, result->second
  pc,                            \* where the call is
  records,                       \* history: the telemetry records seen
  exported,                      \* history: the Samples handed to Export
  fn, fn_args, fn_result,        \* a direct call of one of the functions (the unit tests)
  tool,                          \* a run of main (the command-line tool) or of a benchmark
  calls, decoder                 \* two Convert calls in parallel and the decoder they use

vars == <<output_type, offset, smoothness, collect_data_types, imperial, count_, position_, data_size,
          fit_status, messages, used_data_types, file_items, non_msg_counter, first_fit_timestamp,
          first_video_timestamp, slots, new_fit_data_ptr, previous_fot_data_ptr, write_buffer, result,
          pc, records, exported, fn, fn_args, fn_result, tool, calls, decoder>>

\* the variables of a direct call of a function
unit == <<fn, fn_args, fn_result>>

\* the variables of two calls in parallel
parallel == <<calls, decoder>>

args == <<output_type, offset, smoothness, collect_data_types, imperial>>

json_output == output_type = "json"

\* every kind that is not json taken for vtt
vtt_output_not_json == output_type # "json"

vtt_output == output_type = "vtt"

Init ==
  /\ output_type \in OutputTypes
  /\ offset \in Offsets
  /\ smoothness \in 0 .. MaxSmoothness
  /\ collect_data_types \in CollectMasks
  /\ imperial \in BOOLEAN
  /\ count_ \in SourceSizes
  /\ position_ = 0
  /\ data_size = 0
  /\ fit_status = "FIT_CONVERT_CONTINUE"
  /\ messages = 0
  /\ used_data_types = {}
  /\ file_items = 0
  /\ non_msg_counter = 0
  /\ first_fit_timestamp = 0
  /\ first_video_timestamp = 0
  /\ slots = [s \in {"new_fit_data", "previous_fit_data"} |-> EmptyFitData]
  /\ new_fit_data_ptr = "new_fit_data"
  /\ previous_fot_data_ptr = "nullptr"
  /\ write_buffer = IF json_output \/ vtt_output THEN <<HeaderEntry>> ELSE <<>>
  /\ result = [first |-> "kError", second |-> <<>>]
  /\ pc = "start"
  /\ records = <<>>
  /\ exported = <<>>
  /\ fn = "Convert"
  /\ fn_args = <<>>
  /\ fn_result = <<>>
  /\ tool = <<>>
  /\ calls = <<>>
  /\ decoder = <<>>

(***************************************************************************)
(* The test of the outer loop: DataSourceMemory::ReadData, then the two    *)
(* other conjuncts.  The test runs when the call starts and every time the *)
(* inner loop is left.                                                     *)
(***************************************************************************)
ReadDataStatus(count, position) ==
  LET remaining_data == count - position
  IN IF remaining_data = 0 THEN "kError"
     ELSE IF kBufferSize >= remaining_data THEN "kEndOfFile" ELSE "kContinueRead"

ReadDataCopied(count, position) ==
  LET remaining_data == count - position
  IN IF kBufferSize >= remaining_data THEN remaining_data ELSE kBufferSize

\* the loop is entered (again) when status is the decoder's last status
LoopTest(status) ==
  /\ data_size' = ReadDataCopied(count_, position_)
  /\ position_' = position_ + ReadDataCopied(count_, position_)
  /\ pc' = IF /\ ReadDataStatus(count_, position_) # "kError"
              /\ status = "FIT_CONVERT_CONTINUE"
              /\ data_size' > 0
           THEN "decode" ELSE "finish"

ReadData ==
  /\ pc = "start"
  /\ LoopTest(fit_status)
  /\ UNCHANGED <<unit, tool, parallel, args, count_, fit_status, messages, used_data_types, file_items, non_msg_counter,
                 first_fit_timestamp, first_video_timestamp, slots, new_fit_data_ptr,
                 previous_fot_data_ptr, write_buffer, result, records, exported>>

(***************************************************************************)
(* The inner loop: one return of FitConvert_Read.  The decoder is a        *)
(* collaborator: what it returns is a free choice.                         *)
(***************************************************************************)
EndStatuses == {"FIT_CONVERT_CONTINUE", "FIT_CONVERT_END_OF_FILE", "FIT_CONVERT_ERROR",
                "FIT_CONVERT_DATA_TYPE_NOT_SUPPORTED", "FIT_CONVERT_PROTOCOL_VERSION_NOT_SUPPORTED"}

\* FitConvert_Read returns something else than FIT_CONVERT_MESSAGE_AVAILABLE:
\* the inner loop is left and the outer test runs
DecodeEnd(status) ==
  /\ pc = "decode"
  /\ fit_status' = status
  /\ LoopTest(status)
  /\ UNCHANGED <<unit, tool, parallel, args, count_, messages, used_data_types, file_items,
                 non_msg_counter, first_fit_timestamp, first_video_timestamp, slots, new_fit_data_ptr,
                 previous_fot_data_ptr, write_buffer, result, records, exported>>

\* a message that is not FIT_MESG_NUM_RECORD
SkipMessage ==
  /\ pc = "decode"
  /\ messages < MaxMessages
  /\ messages' = messages + 1
  /\ fit_status' = "FIT_CONVERT_MESSAGE_AVAILABLE"
  /\ non_msg_counter' = non_msg_counter + 1
  /\ UNCHANGED <<unit, tool, parallel, args, count_, position_, data_size, used_data_types, file_items,
                 first_fit_timestamp, first_video_timestamp, slots, new_fit_data_ptr,
                 previous_fot_data_ptr, write_buffer, result, pc, records, exported>>

(***************************************************************************)
(* The body of the inner loop for a FIT_MESG_NUM_RECORD message.           *)
(***************************************************************************)
\* the value of *new_fit_data_ptr after cur_step passes of the smoothing loop
RECURSIVE Smoothed(_, _, _, _)
Smoothed(start, diff, smoothed_diff_ms, cur_step) ==
  IF cur_step = 0 THEN start
  ELSE LET sum == FitDataPlus(Smoothed(start, diff, smoothed_diff_ms, cur_step - 1), diff)
       IN SetValue(sum, kTypeTimeStampNext, GetValue(sum, kTypeTimeStamp) + smoothed_diff_ms)

\* the smoothing loop one pass short
ExportListOnePassShort(previous, current, n) ==
  LET new_fit_from_ms == GetValue(current, kTypeTimeStamp)
  IN IF n > 0
     THEN LET smoothed_diff_ms == TruncDiv(new_fit_from_ms - GetValue(previous, kTypeTimeStamp), n + 1)
              first == SetValue(previous, kTypeTimeStampNext, GetValue(previous, kTypeTimeStamp) + smoothed_diff_ms)
              diff == FitDataDiv(FitDataMinus(current, first), n + 1)
          IN [i \in 1 .. n |-> Smoothed(first, diff, smoothed_diff_ms, i - 1)]
     ELSE <<SetValue(previous, kTypeTimeStampNext, new_fit_from_ms)>>

\* the Samples passed to Export when current arrives after previous, in order
ExportList(previous, current, n) ==
  LET new_fit_from_ms == GetValue(current, kTypeTimeStamp)
  IN IF n > 0
     THEN LET smoothed_diff_ms == TruncDiv(new_fit_from_ms - GetValue(previous, kTypeTimeStamp), n + 1)
              first == SetValue(previous, kTypeTimeStampNext, GetValue(previous, kTypeTimeStamp) + smoothed_diff_ms)
              diff == FitDataDiv(FitDataMinus(current, first), n + 1)
          IN [i \in 1 .. (n + 1) |-> Smoothed(first, diff, smoothed_diff_ms, i - 1)]
     ELSE <<SetValue(previous, kTypeTimeStampNext, new_fit_from_ms)>>

\* history entries for the Samples xs: xs[1] is accepted record number item, the rest is synthetic
Handed(xs, item) == [i \in 1 .. Len(xs) |-> [fd |-> xs[i], real |-> IF i = 1 THEN item ELSE 0]]

\* the capture without "first_fit_timestamp += offset"
CapturedFitTimestampNoOffset(type_msec, first_fit, off) ==
  IF 0 = first_fit THEN type_msec ELSE first_fit

\* first_fit_timestamp after the "0 == first_fit_timestamp" block
CapturedFitTimestamp(type_msec, first_fit, off) ==
  IF 0 = first_fit THEN (IF off > 0 THEN type_msec + off ELSE type_msec) ELSE first_fit

DecodeRecord(rec) ==
  LET type_msec == rec.timestamp * 1000
      capture == (0 = first_fit_timestamp)
      fft == CapturedFitTimestamp(type_msec, first_fit_timestamp, offset)
      fvt == IF capture /\ offset < 0 THEN Abs(offset) ELSE first_video_timestamp
      lead == capture /\ offset < 0 /\ vtt_output
      lead_throws == lead /\ (TimeThrows(0) \/ TimeThrows(fvt))
      wb1 == IF lead THEN Append(write_buffer, MessageCue("lead", 0, fvt)) ELSE write_buffer
      dropped == offset > 0 /\ type_msec < fft
      new_fit_from_ms == (type_msec - fft) + fvt
      current == SetValue(ApplyData(rec, collect_data_types), kTypeTimeStamp, new_fit_from_ms)
      is_first == previous_fot_data_ptr = "nullptr"
      xs == ExportList(slots[previous_fot_data_ptr], current, smoothness)
      k == ExportThrowsAt(xs, output_type)
      handed == IF k = 0 THEN xs ELSE SubSeq(xs, 1, k)
      fate == IF lead_throws THEN "thrown" ELSE IF dropped THEN "dropped" ELSE "accepted"
  IN /\ pc = "decode"
     /\ messages < MaxMessages
     /\ messages' = messages + 1
     /\ fit_status' = "FIT_CONVERT_MESSAGE_AVAILABLE"
     /\ first_fit_timestamp' = fft
     /\ first_video_timestamp' = fvt
     /\ records' = Append(records, [msec |-> type_msec, fate |-> fate, ts |-> new_fit_from_ms])
     /\ IF lead_throws
        THEN \* Time end(first_video_timestamp) throws out of Convert
             /\ pc' = "thrown"
             /\ UNCHANGED <<used_data_types, file_items, slots, new_fit_data_ptr, previous_fot_data_ptr,
                            write_buffer, exported>>
        ELSE IF dropped
        THEN \* continue before ApplyData
             /\ write_buffer' = wb1
             /\ UNCHANGED <<pc, used_data_types, file_items, slots, new_fit_data_ptr,
                            previous_fot_data_ptr, exported>>
        ELSE /\ used_data_types' = used_data_types \cup GetTypes(current)
             /\ file_items' = file_items + 1
             /\ previous_fot_data_ptr' = new_fit_data_ptr
             /\ IF is_first
                THEN \* nothing to export yet
                     /\ new_fit_data_ptr' = "previous_fit_data"
                     /\ slots' = [slots EXCEPT ![new_fit_data_ptr] = current]
                     /\ write_buffer' = wb1
                     /\ UNCHANGED <<pc, exported>>
                ELSE /\ new_fit_data_ptr' = previous_fot_data_ptr
                     /\ slots' = [slots EXCEPT ![new_fit_data_ptr] = current,
                                               ![previous_fot_data_ptr] = handed[Len(handed)]]
                     /\ write_buffer' = wb1 \o ExportWritten(xs, output_type, imperial)
                     /\ exported' = exported \o Handed(handed, file_items)
                     /\ pc' = IF k = 0 THEN "decode" ELSE "terminated"
     /\ UNCHANGED <<unit, tool, parallel, args, count_, position_, data_size, non_msg_counter, result>>

(***************************************************************************)
(* The code after the loops.                                               *)
(***************************************************************************)
Finish ==
  LET has_last == previous_fot_data_ptr # "nullptr"
      last0 == slots[previous_fot_data_ptr]
      last == SetValue(last0, kTypeTimeStampNext, GetValue(last0, kTypeTimeStamp) + 1000)
      k == ExportThrowsAt(<<last>>, output_type)
      end_from == GetValue(last, kTypeTimeStampNext)
      end_to == GetValue(last, kTypeTimeStampNext) + 60000
      end_throws == vtt_output /\ (TimeThrows(end_from) \/ TimeThrows(end_to))
      wb1 == IF has_last THEN write_buffer \o ExportWritten(<<last>>, output_type, imperial) ELSE write_buffer
      wb2 == IF has_last /\ vtt_output THEN Append(wb1, MessageCue("end", end_from, end_to)) ELSE wb1
      wb3 == IF json_output
             THEN Append(wb2, JsonTrailer(used_data_types, first_fit_timestamp, offset, imperial))
             ELSE wb2
  IN /\ pc = "finish"
     /\ IF fit_status = "FIT_CONVERT_END_OF_FILE"
        THEN IF has_last /\ k # 0
             THEN \* the noexcept Export lambda throws
                  /\ pc' = "terminated"
                  /\ slots' = [slots EXCEPT ![previous_fot_data_ptr] = last]
                  /\ exported' = exported \o Handed(<<last>>, file_items)
                  /\ result' = [result EXCEPT !.first = "kSuccess"]
                  /\ UNCHANGED write_buffer
             ELSE IF has_last /\ end_throws
             THEN \* Time end(... + 60000) throws out of Convert
                  /\ pc' = "thrown"
                  /\ slots' = [slots EXCEPT ![previous_fot_data_ptr] = last]
                  /\ exported' = exported \o Handed(<<last>>, file_items)
                  /\ write_buffer' = wb1
                  /\ result' = [result EXCEPT !.first = "kSuccess"]
             ELSE /\ pc' = "returned"
                  /\ slots' = IF has_last THEN [slots EXCEPT ![previous_fot_data_ptr] = last] ELSE slots
                  /\ exported' = IF has_last THEN exported \o Handed(<<last>>, file_items) ELSE exported
                  /\ write_buffer' = <<>>
                  /\ result' = [first |-> "kSuccess", second |-> wb3]
        ELSE /\ pc' = "returned"
             /\ UNCHANGED <<slots, exported, write_buffer, result>>
     /\ UNCHANGED <<unit, tool, parallel, args, count_, position_, data_size, fit_status, messages, used_data_types, file_items,
                    non_msg_counter, first_fit_timestamp, first_video_timestamp, new_fit_data_ptr,
                    previous_fot_data_ptr, records>>

Next ==
  \/ ReadData
  \/ \E status \in EndStatuses : DecodeEnd(status)
  \/ SkipMessage
  \/ \E rec \in RawRecords : DecodeRecord(rec)
  \/ Finish

Spec == Init /\ [][Next]_vars

TypeOK ==
  /\ pc \in {"start", "decode", "finish", "returned", "terminated", "thrown"}
  /\ position_ \in 0 .. count_
  /\ result.first \in {"kSuccess", "kError"}
  /\ new_fit_data_ptr \in {"new_fit_data", "previous_fit_data"}
  /\ previous_fot_data_ptr \in {"nullptr", "new_fit_data", "previous_fit_data"}
  /\ new_fit_data_ptr # previous_fot_data_ptr

(***************************************************************************)
(* Vocabulary of the properties.                                           *)
(***************************************************************************)
RECURSIVE SelectKind(_, _)
SelectKind(buf, kind) ==
  IF buf = <<>> THEN <<>>
  ELSE (IF Head(buf).kind = kind THEN <<Head(buf)>> ELSE <<>>) \o SelectKind(Tail(buf), kind)

RECURSIVE SelectFate(_, _)
SelectFate(recs, fate) ==
  IF recs = <<>> THEN <<>>
  ELSE (IF Head(recs).fate = fate THEN <<Head(recs)>> ELSE <<>>) \o SelectFate(Tail(recs), fate)

\* the telemetry records that were not dropped, in input order
Accepted == SelectFate(records, "accepted")

StrictlyIncreasing == \A i \in 1 .. (Len(records) - 1) : records[i].msec < records[i + 1].msec

Ended == pc \in {"returned", "terminated", "thrown"}

EndedSuccess == pc = "returned" /\ result.first = "kSuccess"

EndedFailed == pc = "returned" /\ result.first = "kError"

\* the offset itself can be rendered as a time
OffsetInRange == Abs(offset) <= kMaxTimeMs

(***************************************************************************)
(* C1: for k >= 1 telemetry records with strictly increasing timestamps,   *)
(* offset 0, smoothness 0 and JSON output (all fields selected), a         *)
(* successful call returns exactly k record objects in input order,        *)
(* record i with timestamp t_i - t_1, timestamp-next equal to the          *)
(* timestamp of the following record, and the last one with                *)
(* timestamp-next = timestamp + 1000.                                      *)
(***************************************************************************)
C1_JsonRecordsFollowInput ==
  (/\ EndedSuccess /\ json_output /\ offset = 0 /\ smoothness = 0
   /\ collect_data_types = AllTypes /\ Len(records) >= 1 /\ StrictlyIncreasing)
  => LET recs == SelectKind(result.second, "record")
         k == Len(records)
     IN /\ Len(recs) = k
        /\ \A i \in 1 .. k :
             /\ recs[i].body[kTypeTimeStamp] = records[i].msec - records[1].msec
             /\ recs[i].body[kTypeTimeStampNext] =
                  IF i < k THEN records[i + 1].msec - records[1].msec
                  ELSE recs[i].body[kTypeTimeStamp] + 1000

(***************************************************************************)
(* C2: once the first telemetry record has been processed, no later step   *)
(* of the call changes first_fit_timestamp or first_video_timestamp.       *)
(***************************************************************************)
C2_OriginsAssignedOnce ==
  [][Len(records) >= 1 => /\ first_fit_timestamp' = first_fit_timestamp
                          /\ first_video_timestamp' = first_video_timestamp]_vars

(***************************************************************************)
(* C3: with offset > 0 a telemetry record is dropped exactly when its      *)
(* device timestamp is below (timestamp of the first record + offset); the *)
(* step that drops a record changes neither the output buffer, the         *)
(* used-field mask, the accepted-record counter nor the two Sample slots   *)
(* and their pointers; every record that is not dropped is handed to the   *)
(* formatter with timestamp deviceTimestamp - (firstTimestamp + offset),   *)
(* and on Success every such record has been handed over.                  *)
(***************************************************************************)
DropStep ==
  /\ Len(records') = Len(records) + 1
  /\ records'[Len(records')].fate = "dropped"

C3_DroppedIffBeforeOrigin ==
  (offset > 0) =>
    \A i \in 1 .. Len(records) :
      (records[i].fate = "dropped") <=> (records[i].msec < records[1].msec + offset)

C3_RealTimestamps ==
  (offset > 0) =>
    /\ \A i \in 1 .. Len(exported) :
         exported[i].real > 0 =>
           GetValue(exported[i].fd, kTypeTimeStamp) =
             Accepted[exported[i].real].msec - (records[1].msec + offset)
    /\ EndedSuccess => \A j \in 1 .. Len(Accepted) : \E i \in 1 .. Len(exported) : exported[i].real = j

C3_PositiveOffsetDrops ==
  /\ [](C3_DroppedIffBeforeOrigin /\ C3_RealTimestamps)
  /\ [][(offset > 0 /\ DropStep) =>
          UNCHANGED <<write_buffer, used_data_types, file_items, slots, new_fit_data_ptr,
                      previous_fot_data_ptr, exported>>]_vars

\* a call with a positive offset that dropped records, accepted others and ended in Success
C3_Witness ==
  /\ offset > 0
  /\ EndedSuccess
  /\ \E i \in 1 .. Len(records) : i > 1 /\ records[i].fate = "dropped"
  /\ Len(Accepted) >= 1
  /\ Len(exported) >= 1

\* the entries written by the call: the returned buffer after Success
Output == IF EndedSuccess THEN result.second ELSE write_buffer

(***************************************************************************)
(* C4: with offset < 0 and subtitle output, once a telemetry record has    *)
(* been read the output holds exactly one lead-in cue, spanning            *)
(* [0, |offset|), before every telemetry cue, and every telemetry record   *)
(* is handed to the formatter with timestamp                               *)
(* (deviceTimestamp - firstDeviceTimestamp) + |offset|; with offset >= 0   *)
(* or another output kind no lead-in cue is written.                       *)
(***************************************************************************)
C4_LeadInCue ==
  (Len(records) >= 1 /\ OffsetInRange) =>
    LET leads == SelectKind(Output, "lead")
    IN IF vtt_output /\ offset < 0
       THEN /\ Len(leads) = 1
            /\ leads[1].from = format_timestamp(Time(0))
            /\ leads[1].to = format_timestamp(Time(Abs(offset)))
            /\ \A i, j \in 1 .. Len(Output) :
                 (Output[i].kind = "lead" /\ Output[j].kind = "cue") => i < j
            /\ \A i \in 1 .. Len(exported) :
                 exported[i].real > 0 =>
                   GetValue(exported[i].fd, kTypeTimeStamp) =
                     (Accepted[exported[i].real].msec - records[1].msec) + Abs(offset)
       ELSE Len(leads) = 0

(***************************************************************************)
(* C5 as claimed: for smoothness n in 1..5 a completed interpolation step  *)
(* for previous a and current b hands over n + 1 Samples: n synthetic      *)
(* Samples a + i * ((b - a) / (n + 1)), i = 1..n, in every field, followed *)
(* by b itself, field for field and mask included.  Stated for streams     *)
(* whose first timestamp is not 0.                                         *)
(***************************************************************************)
\* a telemetry record arrived after an earlier accepted one and Samples were exported
SmoothStep ==
  /\ smoothness >= 1
  /\ pc = "decode"
  /\ Len(exported') > Len(exported)

StepSamples == SubSeq(exported', Len(exported) + 1, Len(exported'))

StepPrevious == slots[previous_fot_data_ptr]

StepCurrent == slots'[previous_fot_data_ptr']

C5_StepEndsWithCurrent ==
  [][(SmoothStep /\ pc' = "decode" /\ records[1].msec # 0) =>
       LET a == StepPrevious
           b == StepCurrent
           n == smoothness
       IN /\ Len(StepSamples) = n + 1
          /\ \A i \in 1 .. n : \A t \in DataType :
               StepSamples[i].fd.values[t] = a.values[t] + i * TruncDiv(b.values[t] - a.values[t], n + 1)
          /\ StepSamples[n + 1].fd = b]_vars

(***************************************************************************)
(* C5 as amended: the step hands over at most n + 1 Samples, all n + 1     *)
(* unless the cue formatter ends the process: first the previous Sample a  *)
(* itself with timestamp-next = a.timestamp + step, step =                 *)
(* (b.timestamp - a.timestamp) / (n + 1), then the synthetic Samples       *)
(* a + i * ((b - a) / (n + 1)), i = 1..n (division truncating toward       *)
(* zero), each with timestamp-next = its timestamp + step and with the     *)
(* union of the masks of a and b.  The current Sample b is not among them. *)
(***************************************************************************)
C5_Expected(a, b, n, i) ==
  LET step == TruncDiv(b.values[kTypeTimeStamp] - a.values[kTypeTimeStamp], n + 1)
  IN [values |-> [t \in DataType |->
                    IF t = kTypeTimeStampNext
                    THEN a.values[kTypeTimeStamp] + i * step + step
                    ELSE a.values[t] + i * TruncDiv(b.values[t] - a.values[t], n + 1)],
      available_types |-> IF i = 0 THEN a.available_types
                          ELSE a.available_types \cup b.available_types]

C5_StepStartsWithPrevious ==
  [][SmoothStep =>
       LET a == StepPrevious
           b == StepCurrent
           n == smoothness
           k == Len(StepSamples)
       IN /\ k <= n + 1
          /\ (pc' = "decode") => (k = n + 1)
          /\ (pc' # "decode") => (pc' = "terminated" /\ vtt_output /\ ExportToVttThrows(StepSamples[k].fd))
          /\ \A i \in 1 .. k :
               /\ StepSamples[i].fd = C5_Expected(a, b, n, i - 1)
               /\ StepSamples[i].real = IF i = 1 THEN file_items ELSE 0]_vars

\* a completed step whose synthetic heart rate lies strictly between the two records
C5_Witness ==
  /\ smoothness >= 1
  /\ pc = "decode"
  /\ \E i \in 1 .. Len(exported) :
       /\ exported[i].real = 0
       /\ exported[i].fd.values[kTypeHeartRate] \in {101, 102}

(***************************************************************************)
(* C6: every Sample the decoder produced has the presence bit of the       *)
(* timestamp, whatever fields the caller selected, and every JSON record   *)
(* written has a timestamp entry.                                          *)
(***************************************************************************)
C6_TimestampAlwaysPresent ==
  /\ previous_fot_data_ptr # "nullptr" =>
       kTypeTimeStamp \in GetTypes(slots[previous_fot_data_ptr])
  /\ \A i \in 1 .. Len(exported) : kTypeTimeStamp \in GetTypes(exported[i].fd)
  /\ \A i \in 1 .. Len(Output) :
       Output[i].kind = "record" => kTypeTimeStamp \in DOMAIN Output[i].body

(***************************************************************************)
(* C7: a call ends in Success exactly when the decoder's last status is    *)
(* FIT_CONVERT_END_OF_FILE; with any other last status it ends in Failed   *)
(* and the returned buffer is empty.  Stated for offsets that can be       *)
(* rendered as a time.                                                     *)
(***************************************************************************)
C7_SuccessIffEndOfFile ==
  (Ended /\ OffsetInRange) =>
    /\ EndedSuccess <=> (fit_status = "FIT_CONVERT_END_OF_FILE")
    /\ (fit_status # "FIT_CONVERT_END_OF_FILE") => (EndedFailed /\ result.second = <<>>)

(***************************************************************************)
(* C8 as claimed: a call with an output kind that is neither json nor vtt  *)
(* never ends in Success.                                                  *)
(***************************************************************************)
C8_UnknownKindFails ==
  (output_type \notin {"json", "vtt"}) => ~EndedSuccess

(***************************************************************************)
(* C8 as amended: a call with an output kind that is neither json nor vtt  *)
(* is not rejected: it decodes the input, writes nothing, ends neither by  *)
(* an exception nor by termination, and returns Success with an empty      *)
(* buffer exactly when the decoder's last status is                        *)
(* FIT_CONVERT_END_OF_FILE, Failed with an empty buffer otherwise.         *)
(***************************************************************************)
C8_UnknownKindWritesNothing ==
  (output_type \notin {"json", "vtt"}) =>
    /\ write_buffer = <<>>
    /\ pc \notin {"terminated", "thrown"}
    /\ pc = "returned" =>
         /\ result.second = <<>>
         /\ (result.first = "kSuccess") <=> (fit_status = "FIT_CONVERT_END_OF_FILE")

\* a call with kind "none" that decoded two records and returned Success
C8_Witness ==
  /\ output_type = "none"
  /\ EndedSuccess
  /\ Len(Accepted) >= 2
  /\ Len(exported) >= 2

(***************************************************************************)
(* C9: a run of consecutive skipped non-telemetry messages longer than the *)
(* capacity of the read buffer stops the conversion, which ends in Failed, *)
(* and the next telemetry record resets the counter of skipped messages.   *)
(***************************************************************************)
C9_SkipsBounded ==
  /\ [](non_msg_counter > kBufferSize => (pc \in {"finish", "returned"} /\ ~EndedSuccess))
  /\ [][Len(records') > Len(records) => non_msg_counter' = 0]_vars

(***************************************************************************)
(* C10: when a Sample handed to the formatter has a timestamp or a         *)
(* timestamp-next above 99 hours, the call (json or vtt) ends in Failed    *)
(* with no output: it neither terminates abnormally nor returns Success,   *)
(* and the value is never written.  Stated for offsets that can be         *)
(* rendered as a time and streams whose first timestamp is not 0.          *)
(***************************************************************************)
OutOfRange(fd) ==
  \/ GetValue(fd, kTypeTimeStamp) > kMaxTimeMs
  \/ GetValue(fd, kTypeTimeStampNext) > kMaxTimeMs

C10_OutOfRangeFails ==
  ((json_output \/ vtt_output) /\ OffsetInRange /\ Len(records) >= 1 /\ records[1].msec # 0
   /\ \E i \in 1 .. Len(exported) : OutOfRange(exported[i].fd)) =>
    /\ pc \notin {"terminated", "thrown"}
    /\ ~EndedSuccess
    /\ pc = "returned" => result.second = <<>>
    /\ \A i \in 1 .. Len(Output) : \A t \in {kTypeTimeStamp, kTypeTimeStampNext} :
         (Output[i].kind = "record" /\ t \in DOMAIN Output[i].body) => Output[i].body[t] <= kMaxTimeMs

(***************************************************************************)
(* Direct calls of the functions of parser.cpp, as the unit tests and main *)
(* make them: one behaviour is one call, fn names the function, fn_args    *)
(* holds its arguments and fn_result what it returned.  No Convert call    *)
(* runs in these behaviours.                                               *)
(***************************************************************************)
convert_vars == <<args, count_, position_, data_size, fit_status, messages, used_data_types, file_items,
                  non_msg_counter, first_fit_timestamp, first_video_timestamp, slots, new_fit_data_ptr,
                  previous_fot_data_ptr, write_buffer, result, pc, records, exported>>

\* the locals of a Convert call that is never started
ConvertNotCalled ==
  /\ output_type = "none"
  /\ offset = 0
  /\ smoothness = 0
  /\ collect_data_types = AllTypes
  /\ imperial = FALSE
  /\ count_ = 0
  /\ position_ = 0
  /\ data_size = 0
  /\ fit_status = "FIT_CONVERT_CONTINUE"
  /\ messages = 0
  /\ used_data_types = {}
  /\ file_items = 0
  /\ non_msg_counter = 0
  /\ first_fit_timestamp = 0
  /\ first_video_timestamp = 0
  /\ slots = [s \in {"new_fit_data", "previous_fit_data"} |-> EmptyFitData]
  /\ new_fit_data_ptr = "new_fit_data"
  /\ previous_fot_data_ptr = "nullptr"
  /\ write_buffer = <<>>
  /\ result = [first |-> "kError", second |-> <<>>]
  /\ pc = "start"
  /\ records = <<>>
  /\ exported = <<>>

Pending == [done |-> FALSE]

Returns(value) == [done |-> TRUE, throws |-> FALSE, value |-> value]

Throws == [done |-> TRUE, throws |-> TRUE]

\* h:m:s.ms as a millisecond count
Millis(h, m, s, ms) == h * 3600000 + m * 60000 + s * 1000 + ms

\* the millisecond counts Time is constructed from
TimeInputs ==
  {Millis(h, m, s, ms) : h \in {0, 1, 34, 98}, m \in {0, 17, 59}, s \in {0, 11, 36, 59}, ms \in {0, 111, 789, 999}}
  \cup {100, 1100, 11111, 123456, 123456789, 356399999, 356400000, 356400001, 356400999, 1234567890}

\* Time time(ms); format_timestamp(buffer.data(), buffer.size(), time)
CallTime ==
  /\ fn = "Time"
  /\ fn_result = Pending
  /\ fn_result' = IF TimeThrows(fn_args) THEN Throws
                  ELSE Returns([time |-> Time(fn_args), text |-> format_timestamp(Time(fn_args))])
  /\ UNCHANGED <<fn, fn_args, tool, parallel, convert_vars>>

(***************************************************************************)
(* DataTypeNamesToMask.  A std::string_view is the sequence of its         *)
(* characters; position p of the C++ string is element p + 1.              *)
(***************************************************************************)
\* the names of kDataTypes (.first), by DataType
kDataTypes ==
  <<<<"s", "p", "e", "e", "d">>,
    <<"d", "i", "s", "t", "a", "n", "c", "e">>,
    <<"h", "e", "a", "r", "t", "r", "a", "t", "e">>,
    <<"a", "l", "t", "i", "t", "u", "d", "e">>,
    <<"p", "o", "w", "e", "r">>,
    <<"c", "a", "d", "e", "n", "c", "e">>,
    <<"t", "e", "m", "p", "e", "r", "a", "t", "u", "r", "e">>,
    <<"t", "i", "m", "e", "s", "t", "a", "m", "p">>,
    <<"l", "a", "t", "i", "t", "u", "d", "e">>,
    <<"l", "o", "n", "g", "i", "t", "u", "d", "e">>,
    <<"t", "i", "m", "e", "s", "t", "a", "m", "p", "n", "e", "x", "t">>>>

\* the first i with kDataTypes[i].first == name, kTypeMax when there is none
NameToDataType(name) ==
  IF \E i \in DataType : kDataTypes[i + 1] = name
  THEN CHOOSE i \in DataType : kDataTypes[i + 1] = name /\ \A j \in 0 .. (i - 1) : kDataTypes[j + 1] # name
  ELSE kTypeMax

npos == -1

\* names.find(",", start)
Find(names, start) ==
  IF \E p \in start .. (Len(names) - 1) : names[p + 1] = ","
  THEN CHOOSE p \in start .. (Len(names) - 1) :
         names[p + 1] = "," /\ \A q \in start .. (p - 1) : names[q + 1] # ","
  ELSE npos

\* names.substr(pos, n)
Substr(names, pos, n) ==
  LET m == IF pos + n > Len(names) THEN Len(names) - pos ELSE n
  IN SubSeq(names, pos + 1, pos + m)

\* the tokens before the last comma only
RECURSIVE TypesWithoutLast(_, _)
TypesWithoutLast(names, start) ==
  LET end == Find(names, start)
      tag == Substr(names, start, end - start)
  IN IF end # npos
     THEN (IF Len(tag) > 0 THEN <<tag>> ELSE <<>>) \o TypesWithoutLast(names, end + 1)
     ELSE <<>>

\* the vector types: the while loop from start, then the last token
RECURSIVE Types(_, _)
Types(names, start) ==
  LET end == Find(names, start)
      tag == Substr(names, start, end - start)
      last_tag == Substr(names, start, Len(names))
  IN IF end # npos
     THEN (IF Len(tag) > 0 THEN <<tag>> ELSE <<>>) \o Types(names, end + 1)
     ELSE (IF Len(last_tag) > 0 THEN <<last_tag>> ELSE <<>>)

DataTypeNamesToMask(names) ==
  LET types == Types(names, 0)
  IN UNION {DataTypeToMask(NameToDataType(types[i])) :
              i \in {j \in 1 .. Len(types) : NameToDataType(types[j]) # kTypeMax}}

\* main: a mask of 0 is replaced by std::numeric_limits<uint32_t>::max()
datatypes_mask(datatypes) ==
  IF {} = DataTypeNamesToMask(datatypes) THEN AllTypes ELSE DataTypeNamesToMask(datatypes)

\* the tokens the lists of the calls are made of: two names, the empty
\* token, and three tokens that are not names
NameTokens == {<<"s", "p", "e", "e", "d">>, <<"h", "e", "a", "r", "t", "r", "a", "t", "e">>, <<>>, <<"x">>, <<"S", "p", "e", "e", "d">>, <<"s", "p", "e", "e", "d", " ">>}

MaxTokens == 3

NameLists == UNION {[1 .. n -> NameTokens] : n \in 0 .. MaxTokens}

\* the tokens joined by commas
RECURSIVE Join(_)
Join(tokens) ==
  IF Len(tokens) = 0 THEN <<>>
  ELSE IF Len(tokens) = 1 THEN tokens[1]
  ELSE tokens[1] \o <<",">> \o Join(Tail(tokens))

\* uint32_t datatypes_mask = DataTypeNamesToMask(datatypes); if (0 == datatypes_mask) ...
CallDataTypeNamesToMask ==
  /\ fn = "DataTypeNamesToMask"
  /\ fn_result = Pending
  /\ fn_result' = Returns([types_mask |-> DataTypeNamesToMask(fn_args.names),
                           datatypes_mask |-> datatypes_mask(fn_args.names)])
  /\ UNCHANGED <<fn, fn_args, tool, parallel, convert_vars>>

(***************************************************************************)
(* FitData::ApplyData and the two formatters, called on their own.         *)
(***************************************************************************)
\* FIT_RECORD_MESG: every field valid (v = 1) or invalid (v = 0) on its own
\* for altitude, speed and position, together for the other fields
RecordInputs ==
  { [timestamp |-> 7,
     distance |-> IF o = 1 THEN 123456 ELSE FIT_UINT32_INVALID,
     heart_rate |-> IF o = 1 THEN 100 ELSE FIT_UINT8_INVALID,
     cadence |-> IF o = 1 THEN 80 ELSE FIT_UINT8_INVALID,
     power |-> IF o = 1 THEN 250 ELSE FIT_UINT16_INVALID,
     temperature |-> IF o = 1 THEN -5 ELSE FIT_SINT8_INVALID,
     altitude |-> IF a = 1 THEN 3000 ELSE FIT_UINT16_INVALID,
     enhanced_altitude |-> IF ea = 1 THEN 2503 ELSE FIT_UINT32_INVALID,
     speed |-> IF sp = 1 THEN 1234 ELSE FIT_UINT16_INVALID,
     enhanced_speed |-> IF es = 1 THEN 1260 ELSE FIT_UINT32_INVALID,
     position_lat |-> IF la = 1 THEN 10 ELSE FIT_SINT32_INVALID,
     position_long |-> IF lo = 1 THEN 20 ELSE FIT_SINT32_INVALID] :
    o \in 0 .. 1, a \in 0 .. 1, ea \in 0 .. 1, sp \in 0 .. 1, es \in 0 .. 1, la \in 0 .. 1, lo \in 0 .. 1 }

\* collect_data_types of the direct calls of ApplyData
MaskInputs == CollectMasks \cup {{kTypeAltitude, kTypeLatitude, kTypeTimeStamp},
                                 AllTypes \ {kTypeSpeed, kTypeHeartRate}}

\* new_fit_data_ptr->ApplyData(fit_record_ptr, collect_data_types)
CallApplyData ==
  /\ fn = "ApplyData"
  /\ fn_result = Pending
  /\ fn_result' = Returns(ApplyData(fn_args.rec, fn_args.collect_data_types))
  /\ UNCHANGED <<fn, fn_args, tool, parallel, convert_vars>>

\* raw altitude values (5 * m + 500 in the words of the source)
AltitudeInputs == {0, 4, 5, 2495, 2498, 2499, 2500, 2501, 2504, 2505, 3000, 3002, 35000}

\* the Samples the formatters are called with: one record with the altitude
SampleInputs ==
  { ApplyData([timestamp |-> 7, distance |-> FIT_UINT32_INVALID, heart_rate |-> FIT_UINT8_INVALID,
               cadence |-> FIT_UINT8_INVALID, power |-> FIT_UINT16_INVALID,
               temperature |-> FIT_SINT8_INVALID, altitude |-> raw,
               enhanced_altitude |-> FIT_UINT32_INVALID, speed |-> FIT_UINT16_INVALID,
               enhanced_speed |-> FIT_UINT32_INVALID, position_lat |-> FIT_SINT32_INVALID,
               position_long |-> FIT_SINT32_INVALID], AllTypes) : raw \in AltitudeInputs }

\* x->ExportToJson(writer, imperial)
CallExportToJson ==
  /\ fn = "ExportToJson"
  /\ fn_result = Pending
  /\ fn_result' = Returns(ExportToJson(fn_args.fd, fn_args.imperial))
  /\ UNCHANGED <<fn, fn_args, tool, parallel, convert_vars>>

\* x->ExportToVtt(vtt_writer, imperial)
CallExportToVtt ==
  /\ fn = "ExportToVtt"
  /\ fn_result = Pending
  /\ fn_result' = IF ExportToVttThrows(fn_args.fd) THEN Throws
                  ELSE Returns(ExportToVtt(fn_args.fd, fn_args.imperial))
  /\ UNCHANGED <<fn, fn_args, tool, parallel, convert_vars>>

(***************************************************************************)
(* NumberToStringPrecision.  A double divider is the fraction num / den    *)
(* (160934.4 is 1609344 / 10); a std::string is the sequence of its        *)
(* characters.                                                             *)
(***************************************************************************)
\* the decimal digits of n >= 0
RECURSIVE ToChars(_)
ToChars(n) == IF n < 10 THEN <<Digit[n + 1]>> ELSE ToChars(n \div 10) \o <<Digit[(n % 10) + 1]>>

\* the first k digits of r / d after the decimal point, 0 <= r < d
RECURSIVE FracDigits(_, _, _)
FracDigits(r, d, k) == IF k = 0 THEN <<>> ELSE <<Digit[((r * 10) \div d) + 1]>> \o FracDigits((r * 10) % d, d, k - 1)

\* what is left of r / d after k digits
RECURSIVE FracRem(_, _, _)
FracRem(r, d, k) == IF k = 0 THEN r ELSE FracRem((r * 10) % d, d, k - 1)

\* the first k digits of r / d as a number
RECURSIVE FracValue(_, _, _)
FracValue(r, d, k) == IF k = 0 THEN 0 ELSE FracValue(r, d, k - 1) * 10 + ((FracRem(r, d, k - 1) * 10) \div d)

\* n >= 0 in exactly k digits
RECURSIVE PadDigits(_, _)
PadDigits(n, k) == IF k = 0 THEN <<>> ELSE PadDigits(n \div 10, k - 1) \o <<Digit[(n % 10) + 1]>>

RECURSIVE Pow10(_)
Pow10(k) == IF k = 0 THEN 1 ELSE 10 * Pow10(k - 1)

\* number / divider in fixed notation with k digits after the point, the
\* last one rounded to nearest ("%.kf", std::chars_format::fixed)
FixedChars(number, divider, k) ==
  LET a == Abs(number) * divider.den
      whole == a \div divider.num
      r == a % divider.num
      up == IF 2 * FracRem(r, divider.num, k) >= divider.num THEN 1 ELSE 0
      frac == FracValue(r, divider.num, k) + up
      carry == frac = Pow10(k)
  IN (IF number < 0 THEN <<"-">> ELSE <<>>)
     \o ToChars(IF carry THEN whole + 1 ELSE whole)
     \o (IF k = 0 THEN <<>> ELSE <<".">> \o PadDigits(IF carry THEN 0 ELSE frac, k))

\* std::to_string(double_number / divider): "%f", six digits after the point
to_string(number, divider) == FixedChars(number, divider, 6)

\* str.find('.'), position from 0
FindDot(str) ==
  IF \E p \in 0 .. (Len(str) - 1) : str[p + 1] = "."
  THEN CHOOSE p \in 0 .. (Len(str) - 1) : str[p + 1] = "." /\ \A q \in 0 .. (p - 1) : str[q + 1] # "."
  ELSE npos

NumberToStringPrecision(number, divider, total_symbols, dot_limit) ==
  LET str1 == Substr(to_string(number, divider), 0, total_symbols)
      dot_string_size == Len(str1)
      dot_position == FindDot(str1)
      after_dot_position == dot_limit + 1
      str2 == IF dot_position # npos /\ (dot_string_size - dot_position) > after_dot_position
              THEN Substr(str1, 0, dot_position + after_dot_position)
              ELSE str1
      string_size == Len(str2)
  IN IF string_size > 0 /\ str2[string_size] = "." THEN Substr(str2, 0, string_size - 1) ELSE str2

\* the dividers of the tests (100000.0, 160934.4, 277.77, 447.2136) and two small ones
DividerInputs == {[num |-> 100000, den |-> 1], [num |-> 1609344, den |-> 10], [num |-> 27777, den |-> 100],
                  [num |-> 4472136, den |-> 10000], [num |-> 3, den |-> 1], [num |-> 7, den |-> 1]}

NumberInputs == {0, 2, -5, 123, 1234, 4828, 12345, 123456, 1234567, 12345678, 123456789, 1234567890}

WidthInputs == {0, 4, 5, 8}

BudgetInputs == {0, 1, 2, 6}

\* the calls whose numerator number * den is an int in the checker
PrecisionInputs ==
  {c \in [number : NumberInputs, divider : DividerInputs, total_symbols : WidthInputs, dot_limit : BudgetInputs] :
     Abs(c.number) <= 2147483647 \div c.divider.den}

\* NumberToStringPrecision(number, divider, total_symbols, dot_limit)
CallNumberToStringPrecision ==
  /\ fn = "NumberToStringPrecision"
  /\ fn_result = Pending
  /\ fn_result' = Returns(NumberToStringPrecision(fn_args.number, fn_args.divider,
                                                  fn_args.total_symbols, fn_args.dot_limit))
  /\ UNCHANGED <<fn, fn_args, tool, parallel, convert_vars>>

(***************************************************************************)
(* format_value_suffix.  The buffer holds bytes: a suffix is the sequence  *)
(* of the bytes of its UTF-8 encoding, every byte named by its hex value   *)
(* where it is not ASCII.  A floating value is number / divider.           *)
(***************************************************************************)
\* kMetricFormat and kImperialFormat: .first (suffix) and .second (width), by DataType
kMetricFormat ==
  <<[first |-> <<" ", "k", "m", "/", "h">>, second |-> 12],
    [first |-> <<" ", "k", "m">>, second |-> 10],
    [first |-> <<"E2", "9D", "A4", "EF", "B8", "8F">>, second |-> 11],
    [first |-> <<" ", "m">>, second |-> 8],
    [first |-> <<"E2", "9A", "A1">>, second |-> 9],
    [first |-> <<"E2", "86", "BB">>, second |-> 8],
    [first |-> <<"C2", "B0", "C">>, second |-> 8],
    [first |-> <<>>, second |-> 0],
    [first |-> <<>>, second |-> 0],
    [first |-> <<>>, second |-> 0],
    [first |-> <<>>, second |-> 0]>>

kImperialFormat ==
  <<[first |-> <<" ", "m", "p", "/", "h">>, second |-> 12],
    [first |-> <<" ", "m", "i">>, second |-> 10],
    [first |-> <<"E2", "9D", "A4", "EF", "B8", "8F">>, second |-> 11],
    [first |-> <<" ", "f", "t">>, second |-> 8],
    [first |-> <<"E2", "9A", "A1">>, second |-> 9],
    [first |-> <<"E2", "86", "BB">>, second |-> 8],
    [first |-> <<"C2", "B0", "F">>, second |-> 8],
    [first |-> <<>>, second |-> 0],
    [first |-> <<>>, second |-> 0],
    [first |-> <<>>, second |-> 0],
    [first |-> <<>>, second |-> 0]>>

\* std::to_chars of an integral value
IntChars(value) == (IF value < 0 THEN <<"-">> ELSE <<>>) \o ToChars(Abs(value))

\* the characters std::to_chars produces for value: value.divider is
\* [num |-> 1, den |-> 1] and precision 0 for an integral T
ValueChars(value, precision) ==
  IF value.floating THEN FixedChars(value.number, value.divider, precision) ELSE IntChars(value.number)

Spaces(n) == [i \in 1 .. n |-> " "]

\* the pad written on the right of the text
format_value_suffix_right_pad(value, buffer_size, total_width, suffix, precision) ==
  LET chars == ValueChars(value, precision)
      length == Len(chars) + Len(suffix)
      pad == IF total_width > length THEN total_width - length ELSE 0
  IN IF Len(chars) > buffer_size THEN [size |-> 0, text |-> <<>>]
     ELSE IF length >= buffer_size THEN [size |-> 0, text |-> <<>>]
     ELSE [size |-> length + pad, text |-> chars \o suffix \o Spaces(pad)]

\* the returned size and the bytes buffer_ptr[0 .. size)
format_value_suffix(value, buffer_size, total_width, suffix, precision) ==
  LET chars == ValueChars(value, precision)
      length == Len(chars) + Len(suffix)
      pad == IF total_width > length THEN total_width - length ELSE 0
  IN IF Len(chars) > buffer_size THEN [size |-> 0, text |-> <<>>]
     ELSE IF length >= buffer_size THEN [size |-> 0, text |-> <<>>]
     ELSE [size |-> length + pad, text |-> Spaces(pad) \o chars \o suffix]

\* formatting_buffer of ExportToVtt and of the tests, and a short one
BufferSizes == {8, 32}

\* the values formatted: integral ones, and floating ones with their precision
ValueInputs ==
  {[floating |-> FALSE, number |-> n, divider |-> [num |-> 1, den |-> 1], precision |-> 0] :
     n \in {0, 5, -7, 12345, 1234567, 123456789}}
  \cup {[floating |-> TRUE, number |-> n, divider |-> [num |-> 1000, den |-> 1], precision |-> k] :
          n \in {123, 129, 1234, 1260, 9996, 123456789}, k \in 1 .. 2}

\* suffix and width of the rows of the two tables that have a suffix; the
\* pad never leaves the buffer: total_width <= buffer_size
SuffixInputs ==
  {c \in [value : ValueInputs, buffer_size : BufferSizes,
          format : {kMetricFormat[t + 1] : t \in VttTypes} \cup {kImperialFormat[t + 1] : t \in VttTypes}] :
     c.format.second <= c.buffer_size}

\* format_value_suffix(value, buffer.data(), buffer.size(), format[t].second, format[t].first, precision)
CallFormatValueSuffix ==
  /\ fn = "format_value_suffix"
  /\ fn_result = Pending
  /\ fn_result' = Returns(format_value_suffix(fn_args.value, fn_args.buffer_size, fn_args.format.second,
                                              fn_args.format.first, fn_args.value.precision))
  /\ UNCHANGED <<fn, fn_args, tool, parallel, convert_vars>>

(***************************************************************************)
(* The direct calls as one specification: Init draws the function and its  *)
(* arguments, the action of the function applies it.                       *)
(***************************************************************************)
InitUnit ==
  /\ ConvertNotCalled
  /\ tool = <<>>
  /\ calls = <<>>
  /\ decoder = <<>>
  /\ fn_result = Pending
  /\ \/ fn = "Time" /\ fn_args \in TimeInputs
     \/ fn = "DataTypeNamesToMask"
        /\ fn_args \in {[tokens |-> tokens, names |-> Join(tokens)] : tokens \in NameLists}
     \/ fn = "NumberToStringPrecision" /\ fn_args \in PrecisionInputs
     \/ fn = "format_value_suffix" /\ fn_args \in SuffixInputs
     \/ fn = "ApplyData" /\ fn_args \in [rec : RecordInputs, collect_data_types : MaskInputs]
     \/ fn \in {"ExportToJson", "ExportToVtt"} /\ fn_args \in [fd : SampleInputs, imperial : BOOLEAN]

NextUnit ==
  \/ CallTime
  \/ CallDataTypeNamesToMask
  \/ CallNumberToStringPrecision
  \/ CallFormatValueSuffix
  \/ CallApplyData
  \/ CallExportToJson
  \/ CallExportToVtt

SpecUnit == InitUnit /\ [][NextUnit]_vars

Called(name) == fn = name /\ fn_result.done

(***************************************************************************)
(* Properties of the direct calls.                                         *)
(***************************************************************************)
\* the number a digit character stands for
DigitValue(c) == CHOOSE d \in 0 .. 9 : Digit[d + 1] = c

\* the number a sequence of digit characters stands for
RECURSIVE Number(_)
Number(cs) == IF Len(cs) = 0 THEN 0 ELSE Number(SubSeq(cs, 1, Len(cs) - 1)) * 10 + DigitValue(cs[Len(cs)])

IsDigits(cs) == \A i \in 1 .. Len(cs) : \E d \in 0 .. 9 : Digit[d + 1] = cs[i]

\* C11: for 0 <= ms <= 356400000, Time(ms) has hours = ms div 3600000,
\* minutes = (ms mod 3600000) div 60000, seconds = (ms mod 60000) div 1000 and
\* milliseconds = ms mod 1000, and format_timestamp renders them as the 12
\* characters HH:MM:SS.mmm with zero padding: the digits read back give the
\* components, and the components recompose to ms (11111 gives 00:00:11.111,
\* 123456789 gives 34:17:36.789); for ms > 356400000 constructing Time fails.
C11_TimeFormats ==
  Called("Time") =>
    LET ms == fn_args
    IN /\ ms > kMaxTimeMs => fn_result.throws
       /\ (0 <= ms /\ ms <= kMaxTimeMs) =>
            /\ ~fn_result.throws
            /\ LET time == fn_result.value.time
                   text == fn_result.value.text
               IN /\ time.hours = ms \div 3600000
                  /\ time.minutes = (ms % 3600000) \div 60000
                  /\ time.seconds = (ms % 60000) \div 1000
                  /\ time.milliseconds = ms % 1000
                  /\ Len(text) = 12
                  /\ text[3] = ":" /\ text[6] = ":" /\ text[9] = "."
                  /\ IsDigits(SubSeq(text, 1, 2)) /\ IsDigits(SubSeq(text, 4, 5))
                  /\ IsDigits(SubSeq(text, 7, 8)) /\ IsDigits(SubSeq(text, 10, 12))
                  /\ Millis(Number(SubSeq(text, 1, 2)), Number(SubSeq(text, 4, 5)),
                            Number(SubSeq(text, 7, 8)), Number(SubSeq(text, 10, 12))) = ms
                  /\ ms = 11111 => text = <<"0", "0", ":", "0", "0", ":", "1", "1", ".", "1", "1", "1">>
                  /\ ms = 123456789 => text = <<"3", "4", ":", "1", "7", ":", "3", "6", ".", "7", "8", "9">>

\* the largest supported count is formatted: 99:00:00.000
C11_Witness ==
  /\ Called("Time")
  /\ fn_args = kMaxTimeMs
  /\ ~fn_result.throws
  /\ fn_result.value.text = <<"9", "9", ":", "0", "0", ":", "0", "0", ".", "0", "0", "0">>

\* the field kind a token names, among the tokens of the calls
KindOfToken(token) ==
  IF token = <<"s", "p", "e", "e", "d">> THEN {kTypeSpeed}
  ELSE IF token = <<"h", "e", "a", "r", "t", "r", "a", "t", "e">> THEN {kTypeHeartRate}
  ELSE {}

C13_AltitudeIntegerDivision ==
  (Called("ExportToJson") \/ Called("ExportToVtt")) /\ kTypeAltitude \in GetTypes(fn_args.fd) =>
    LET raw == GetValue(fn_args.fd, kTypeAltitude)
        meters == (raw \div 5) - 500
        feet == IF meters >= 0 THEN (meters * 328084) \div 100000 ELSE -(((-meters) * 328084) \div 100000)
        written == fn_result.value.body[kTypeAltitude]
    IN /\ ~fn_result.throws
       /\ written = IF fn_args.imperial THEN feet ELSE meters
       /\ raw = 3000 => written = IF fn_args.imperial THEN 328 ELSE 100

\* number / divider written out in full: sign, whole part, point and the
\* first eight digits after it, none of them rounded
FullRendering(number, divider) ==
  LET a == Abs(number) * divider.den
  IN (IF number < 0 THEN <<"-">> ELSE <<>>) \o ToChars(a \div divider.num) \o <<".">>
     \o FracDigits(a % divider.num, divider.num, 8)

\* the characters after the point, 0 when there is no point
DecimalsOf(str) == IF FindDot(str) = npos THEN 0 ELSE Len(str) - (FindDot(str) + 1)

\* C14: for all inputs with divider > 0, NumberToStringPrecision returns a
\* prefix of the full fixed-point rendering of number / divider (digits are
\* cut, never rounded) that is at most totalWidth characters long, has at most
\* decimalBudget digits after the point and does not end in a bare point;
\* (123456, 100000.0, 5, 2) gives 1.23, (123456789, 100000.0, 5, 2) gives 1234
\* and (1234567890, 100000.0, 5, 2) gives 12345.
C14_CutNeverRounded ==
  Called("NumberToStringPrecision") =>
    LET str_result == fn_result.value
        full == FullRendering(fn_args.number, fn_args.divider)
        tests == fn_args.divider = [num |-> 100000, den |-> 1]
                 /\ fn_args.total_symbols = 5 /\ fn_args.dot_limit = 2
    IN /\ Len(str_result) <= Len(full) /\ str_result = SubSeq(full, 1, Len(str_result))
       /\ Len(str_result) <= fn_args.total_symbols
       /\ DecimalsOf(str_result) <= fn_args.dot_limit
       /\ Len(str_result) > 0 => str_result[Len(str_result)] # "."
       /\ (tests /\ fn_args.number = 123456) => str_result = <<"1", ".", "2", "3">>
       /\ (tests /\ fn_args.number = 123456789) => str_result = <<"1", "2", "3", "4">>
       /\ (tests /\ fn_args.number = 1234567890) => str_result = <<"1", "2", "3", "4", "5">>

C15_WitnessNoSpace ==
  /\ Called("format_value_suffix")
  /\ fn_args.buffer_size = 8
  /\ fn_args.value.number = 1234567
  /\ fn_result.value.size = 0

\* the raw variants of a physical field, as <<value, sentinel>>, the later
\* applied variant last; the sentinel of a 32-bit field (all bits set) is
\* written FIT_UINT32_INVALID
RawVariants(rec, type) ==
  CASE type = kTypeDistance -> <<<<rec.distance, FIT_UINT32_INVALID>>>>
    [] type = kTypeHeartRate -> <<<<rec.heart_rate, 255>>>>
    [] type = kTypeCadence -> <<<<rec.cadence, 255>>>>
    [] type = kTypePower -> <<<<rec.power, 65535>>>>
    [] type = kTypeAltitude -> <<<<rec.altitude, 65535>>, <<rec.enhanced_altitude, FIT_UINT32_INVALID>>>>
    [] type = kTypeSpeed -> <<<<rec.speed, 65535>>, <<rec.enhanced_speed, FIT_UINT32_INVALID>>>>
    [] type = kTypeTemperature -> <<<<rec.temperature, 127>>>>

PhysicalFields == {kTypeDistance, kTypeHeartRate, kTypeCadence, kTypePower, kTypeAltitude, kTypeSpeed,
                   kTypeTemperature}

\* C19: for each physical field of a raw record (distance, heart rate,
\* cadence, power, altitude, speed, temperature) the decoded Sample has the
\* presence bit of the field if and only if the selected mask contains the
\* kind and at least one raw variant of the field differs from the invalid
\* value of its width; then the stored value is the raw value, and for
\* altitude and speed it is the enhanced variant's value whenever that one is
\* valid (it overwrites the standard one when both are valid).
C19_PresentIffSelectedAndValid ==
  Called("ApplyData") =>
    \A type \in PhysicalFields :
      LET variants == RawVariants(fn_args.rec, type)
          valid == {i \in 1 .. Len(variants) : variants[i][1] # variants[i][2]}
          fd == fn_result.value
      IN /\ type \in GetTypes(fd) <=> (type \in fn_args.collect_data_types /\ valid # {})
         /\ type \in GetTypes(fd) =>
              GetValue(fd, type) = variants[CHOOSE i \in valid : \A j \in valid : j <= i][1]

\* both altitude variants are valid and the enhanced one is stored
C19_Witness ==
  /\ Called("ApplyData")
  /\ fn_args.rec.altitude = 3000
  /\ fn_args.rec.enhanced_altitude = 2503
  /\ kTypeAltitude \in GetTypes(fn_result.value)
  /\ GetValue(fn_result.value, kTypeAltitude) = 2503

\* C20: latitude and longitude are applied as a pair only: in every Sample
\* the decoder produces the latitude bit is set if and only if the longitude
\* bit is set, and both are set only when both raw values are valid and both
\* kinds are selected.
C20_PositionAsPair ==
  Called("ApplyData") =>
    LET fd == fn_result.value
        both == /\ fn_args.rec.position_lat # 2147483647
                /\ fn_args.rec.position_long # 2147483647
                /\ {kTypeLatitude, kTypeLongitude} \subseteq fn_args.collect_data_types
    IN /\ kTypeLatitude \in GetTypes(fd) <=> kTypeLongitude \in GetTypes(fd)
       /\ kTypeLatitude \in GetTypes(fd) => both

(***************************************************************************)
(* Two Convert calls in parallel.  Every call has its own data source,     *)
(* read buffer and write buffer; FitConvert_Init, FitConvert_Read,         *)
(* FitConvert_GetMessageNumber and FitConvert_GetMessageData are called    *)
(* without a handle, so the message the decoder holds is one object for    *)
(* the process.  A step is one call of the decoder by one of the Convert   *)
(* calls.  What FitConvert_Read returns follows the input of the caller.   *)
(***************************************************************************)
Callers == {1, 2}

\* a message of a stream: its global message number and, for a record, its data
RecordMesg(timestamp, heart_rate) ==
  [num |-> "FIT_MESG_NUM_RECORD", timestamp |-> timestamp, heart_rate |-> heart_rate]

OtherMesg == [num |-> "FIT_MESG_NUM_EVENT", timestamp |-> 0, heart_rate |-> 0]

NoMesg == [num |-> "none", timestamp |-> 0, heart_rate |-> 0]

\* the inputs of the two calls: no record is in both
StreamInputs ==
  { <<first, second>> :
      first \in {<<RecordMesg(1, 100)>>, <<RecordMesg(1, 100), OtherMesg, RecordMesg(2, 101)>>},
      second \in {<<RecordMesg(5, 150)>>, <<OtherMesg, RecordMesg(5, 150), RecordMesg(6, 151)>>} }

ConvertLocals(stream) ==
  [at |-> "FitConvert_Init", stream |-> stream, consumed |-> 0,
   fit_status |-> "FIT_CONVERT_CONTINUE", non_msg_counter |-> 0, fit_records |-> <<>>]

InitParallel ==
  /\ ConvertNotCalled
  /\ fn = "Convert"
  /\ fn_args = <<>>
  /\ fn_result = <<>>
  /\ tool = <<>>
  /\ \E streams \in StreamInputs : calls = [c \in Callers |-> ConvertLocals(streams[c])]
  /\ decoder = NoMesg

\* FitConvert_Init(FIT_TRUE)
FitConvert_Init(c) ==
  /\ calls[c].at = "FitConvert_Init"
  /\ decoder' = NoMesg
  /\ calls' = [calls EXCEPT ![c].at = "FitConvert_Read"]
  /\ UNCHANGED <<unit, tool, convert_vars>>

\* fit_status = FitConvert_Read(...): the next message of the caller's input
\* is decoded into the decoder's message, or the input is at its end
FitConvert_Read(c) ==
  /\ calls[c].at = "FitConvert_Read"
  /\ IF calls[c].consumed < Len(calls[c].stream)
     THEN /\ decoder' = calls[c].stream[calls[c].consumed + 1]
          /\ calls' = [calls EXCEPT ![c].consumed = @ + 1,
                                    ![c].fit_status = "FIT_CONVERT_MESSAGE_AVAILABLE",
                                    ![c].at = "FitConvert_GetMessageNumber"]
     ELSE /\ calls' = [calls EXCEPT ![c].fit_status = "FIT_CONVERT_END_OF_FILE", ![c].at = "returned"]
          /\ UNCHANGED decoder
  /\ UNCHANGED <<unit, tool, convert_vars>>

\* the body of the inner loop: FitConvert_GetMessageNumber, then
\* FitConvert_GetMessageData for a record
FitConvert_GetMessageData(c) ==
  /\ calls[c].at = "FitConvert_GetMessageNumber"
  /\ calls' = IF decoder.num # "FIT_MESG_NUM_RECORD"
              THEN [calls EXCEPT ![c].non_msg_counter = @ + 1, ![c].at = "FitConvert_Read"]
              ELSE [calls EXCEPT ![c].fit_records = Append(@, decoder), ![c].at = "FitConvert_Read"]
  /\ UNCHANGED <<decoder, unit, tool, convert_vars>>

NextParallel ==
  \/ \E c \in Callers : FitConvert_Init(c)
  \/ \E c \in Callers : FitConvert_Read(c)
  \/ \E c \in Callers : FitConvert_GetMessageData(c)

SpecParallel == InitParallel /\ [][NextParallel]_vars

\* the telemetry records of a stream, in order
RECURSIVE RecordsOf(_)
RecordsOf(stream) ==
  IF Len(stream) = 0 THEN <<>>
  ELSE (IF stream[1].num = "FIT_MESG_NUM_RECORD" THEN <<stream[1]>> ELSE <<>>) \o RecordsOf(Tail(stream))

\* C16: two Convert calls in parallel, each with its own input source, read
\* buffer and output sink, share no mutable state: under every interleaving
\* each call ends with the status it has alone (end of file) and has
\* processed the records of its own input in order, from which its output
\* bytes are computed, as when it runs alone.
C16_ParallelCallsIndependent ==
  \A c \in Callers :
    calls[c].at = "returned" =>
      /\ calls[c].fit_status = "FIT_CONVERT_END_OF_FILE"
      /\ calls[c].fit_records = RecordsOf(calls[c].stream)
      /\ calls[c].non_msg_counter = Len(calls[c].stream) - Len(RecordsOf(calls[c].stream))

(***************************************************************************)
(* The callers of the conversion: main() of the command-line tool and the  *)
(* benchmark BM_FitOnlyExport.  A run of main is followed from the parsed  *)
(* command line to its return; the file system is the state of the output  *)
(* path before the run and what the run does to it.                        *)
(***************************************************************************)
kToolError == -1

kStdoutTag == "stdout"

kValuesISO == "iso"

kValuesImperial == "imperial"

kOutputJsonTag == "json"

kOutputVttTag == "vtt"

\* -v, -t, -s as given on the command line
ValuesInputs == {kValuesISO, kValuesImperial, "metric"}

TypeInputs == {kOutputJsonTag, kOutputVttTag, "none"}

SmoothInputs == {0, 5, 6}

\* -o: stdout or a path
OutputFileInputs == {kStdoutTag, "out.vtt"}

\* the input: a .fit file that decodes cleanly, one that does not, one that cannot be read
InputKinds == {"clean", "malformed", "unreadable"}

\* the output path before the run: no such file, a file, a file that cannot
\* be removed, a path in a directory that does not exist
OutputPathStates == {"absent", "present", "protected", "no_directory"}

\* the device of the output file takes the bytes or fails the write
DeviceStates == {"ok", "full"}

MainRuns ==
  [entry : {"main"}, at : {"parse"}, options : {"given", "missing"},
   values : ValuesInputs, output_type : TypeInputs, smoothness : SmoothInputs,
   output_file : OutputFileInputs, input : InputKinds,
   path : OutputPathStates, device : DeviceStates,
   data_source : {"none"}, decoded : {FALSE}, interpolated : {FALSE},
   result : {"none"}, file : {"untouched"}, stdout : {FALSE}, exit_code : {0}]

\* BM_FitOnlyExport: Convert(data_source, "none", 0, 0, 0xFFFFFF, false) on a file read to memory
BenchmarkRuns ==
  [entry : {"BM_FitOnlyExport"}, at : {"benchmark"}, options : {"given"},
   values : {kValuesISO}, output_type : {"none"}, smoothness : {0},
   output_file : {kStdoutTag}, input : {"clean", "malformed"},
   path : {"absent"}, device : {"ok"},
   data_source : {"none"}, decoded : {FALSE}, interpolated : {FALSE},
   result : {"none"}, file : {"untouched"}, stdout : {FALSE}, exit_code : {0}]

InitMain ==
  /\ ConvertNotCalled
  /\ fn = "main"
  /\ fn_args = <<>>
  /\ fn_result = <<>>
  /\ calls = <<>>
  /\ decoder = <<>>
  /\ tool \in MainRuns \cup BenchmarkRuns

\* return code of main
Exit(code) == [tool EXCEPT !.at = "exited", !.exit_code = code]

\* cmd_result[...].as<>(): an option without a default that was not given throws
MainParse ==
  /\ tool.entry = "main"
  /\ tool.at = "parse"
  /\ tool' = IF tool.options = "missing" THEN Exit(kToolError)
             ELSE [tool EXCEPT !.at = "validate"]
  /\ UNCHANGED <<unit, parallel, convert_vars>>

\* the smoothness test of main
SmoothnessRejected(smoothness_) == smoothness_ > 5

\* the checks of main, in the order of the code, before the data source is made
MainValidateWithoutSmoothness ==
  /\ tool.entry = "main"
  /\ tool.at = "validate"
  /\ tool' = IF tool.values # kValuesISO /\ tool.values # kValuesImperial THEN Exit(kToolError)
             ELSE IF tool.output_type # kOutputJsonTag /\ tool.output_type # kOutputVttTag THEN Exit(kToolError)
             ELSE [tool EXCEPT !.at = "data_source"]
  /\ UNCHANGED <<unit, parallel, convert_vars>>

MainValidate ==
  /\ tool.entry = "main"
  /\ tool.at = "validate"
  /\ tool' = IF tool.values # kValuesISO /\ tool.values # kValuesImperial THEN Exit(kToolError)
             ELSE IF tool.output_type # kOutputJsonTag /\ tool.output_type # kOutputVttTag THEN Exit(kToolError)
             ELSE IF SmoothnessRejected(tool.smoothness) THEN Exit(kToolError)
             ELSE [tool EXCEPT !.at = "data_source"]
  /\ UNCHANGED <<unit, parallel, convert_vars>>

\* std::make_unique<DataSourceFile>(input_fit_file): the stream is opened, nothing is thrown
MainDataSource ==
  /\ tool.entry = "main"
  /\ tool.at = "data_source"
  /\ tool' = [tool EXCEPT !.data_source = "created", !.at = "convert"]
  /\ UNCHANGED <<unit, parallel, convert_vars>>

\* convert(...): the whole input is read and decoded; a status other than
\* success is thrown as std::runtime_error, which main catches
MainConvert ==
  /\ tool.entry = "main"
  /\ tool.at = "convert"
  /\ tool' = IF tool.input = "clean"
             THEN [tool EXCEPT !.decoded = TRUE, !.interpolated = tool.smoothness > 0,
                               !.result = "text", !.at = "write"]
             ELSE [Exit(kToolError) EXCEPT !.decoded = (tool.input = "malformed")]
  /\ UNCHANGED <<unit, parallel, convert_vars>>

\* std::cout << result
MainStdout ==
  /\ tool.entry = "main"
  /\ tool.at = "write"
  /\ tool.output_file = kStdoutTag
  /\ tool' = [Exit(0) EXCEPT !.stdout = TRUE]
  /\ UNCHANGED <<unit, parallel, convert_vars>>

\* std::filesystem::remove(output_file): removes a file, is false for a path
\* that does not exist, throws when the file cannot be removed
MainRemove ==
  /\ tool.entry = "main"
  /\ tool.at = "write"
  /\ tool.output_file # kStdoutTag
  /\ tool' = CASE tool.path = "present" -> [tool EXCEPT !.file = "removed", !.at = "ofstream"]
               [] tool.path = "protected" -> Exit(kToolError)
               [] OTHER -> [tool EXCEPT !.at = "ofstream"]
  /\ UNCHANGED <<unit, parallel, convert_vars>>

\* std::ofstream output_stream(output_file, ...); exceptions(badbit); write(...):
\* a stream that did not open has failbit, the write does nothing and nothing
\* is thrown; a failed write of the device is badbit and throws, unless the
\* bytes still are in the buffer of the stream, whose destructor reports nothing
MainWrite ==
  /\ tool.entry = "main"
  /\ tool.at = "ofstream"
  /\ \/ /\ tool.path = "no_directory"
        /\ tool' = Exit(0)
     \/ /\ tool.path # "no_directory"
        /\ tool.device = "ok"
        /\ tool' = [Exit(0) EXCEPT !.file = "written"]
     \/ /\ tool.path # "no_directory"
        /\ tool.device = "full"
        /\ \E code \in {0, kToolError} : tool' = [Exit(code) EXCEPT !.file = "partial"]
  /\ UNCHANGED <<unit, parallel, convert_vars>>

\* BM_FitOnlyExport: DataSourceMemory, then Convert with the kind "none"
BM_FitOnlyExport ==
  /\ tool.entry = "BM_FitOnlyExport"
  /\ tool.at = "benchmark"
  /\ tool' = [tool EXCEPT !.data_source = "created", !.decoded = TRUE,
                          !.result = IF tool.input = "clean" THEN "kSuccess" ELSE "kError",
                          !.at = "exited"]
  /\ UNCHANGED <<unit, parallel, convert_vars>>

NextMain ==
  \/ MainParse
  \/ MainValidate
  \/ MainDataSource
  \/ MainConvert
  \/ MainStdout
  \/ MainRemove
  \/ MainWrite
  \/ BM_FitOnlyExport

SpecMain == InitMain /\ [][NextMain]_vars

MainExited == tool.entry = "main" /\ tool.at = "exited"

\* C17: the command-line tool returns 0 only when the conversion succeeded
\* and the result was written; on every handled failure it returns the
\* distinguished nonzero code and the output file is neither created,
\* removed nor modified.
C17_ExitCodeAndOutputFile ==
  MainExited =>
    /\ tool.exit_code \in {0, kToolError}
    /\ tool.exit_code = 0 => tool.result = "text" /\ (tool.stdout \/ tool.file = "written")
    /\ tool.exit_code = kToolError => tool.file = "untouched" /\ ~tool.stdout

\* a request with a parameter the validation refuses
InvalidRequest ==
  \/ tool.output_type \notin {kOutputJsonTag, kOutputVttTag}
  \/ tool.smoothness > 5
  \/ tool.values \notin {kValuesISO, kValuesImperial}

OperandInputs ==
  {ApplyData(rec, mask) : rec \in RawRecords, mask \in MaskInputs} \cup {EmptyFitData}

\* the dividers: smoothness + 1 for the smoothness values of a caller, and negative ones
OperatorDividers == {1, 2, 3, 6, -1, -4}

InitOperators ==
  /\ ConvertNotCalled
  /\ tool = <<>>
  /\ calls = <<>>
  /\ decoder = <<>>
  /\ fn_result = Pending
  /\ \/ fn \in {"operator-", "operator+"} /\ fn_args \in [left : OperandInputs, right_value : OperandInputs]
     \/ fn = "operator/" /\ fn_args \in [left : OperandInputs, divider : OperatorDividers]

\* *previous_fot_data_ptr - *new_fit_data_ptr
CallOperatorMinus ==
  /\ fn = "operator-"
  /\ fn_result = Pending
  /\ fn_result' = Returns(FitDataMinus(fn_args.left, fn_args.right_value))
  /\ UNCHANGED <<fn, fn_args, tool, parallel, convert_vars>>

\* *new_fit_data_ptr + diff
CallOperatorPlus ==
  /\ fn = "operator+"
  /\ fn_result = Pending
  /\ fn_result' = Returns(FitDataPlus(fn_args.left, fn_args.right_value))
  /\ UNCHANGED <<fn, fn_args, tool, parallel, convert_vars>>

\* diff / (smoothness + 1u)
CallOperatorDiv ==
  /\ fn = "operator/"
  /\ fn_result = Pending
  /\ fn_result' = Returns(FitDataDiv(fn_args.left, fn_args.divider))
  /\ UNCHANGED <<fn, fn_args, tool, parallel, convert_vars>>

NextOperators ==
  \/ CallOperatorMinus
  \/ CallOperatorPlus
  \/ CallOperatorDiv

SpecOperators == InitOperators /\ [][NextOperators]_vars

\* C21: for all Samples x and y and every nonzero divisor d, the presence
\* mask of x - y and of x + y is the bitwise AND of the masks of x and y, the
\* mask of x / d is the mask of x, and every operator computes all value
\* slots, the slots whose presence bit is clear included.
C21_OperatorMasks ==
  /\ Called("operator-") =>
       /\ fn_result.value.available_types = fn_args.left.available_types \cap fn_args.right_value.available_types
       /\ \A t \in DataType : fn_result.value.values[t] = fn_args.left.values[t] - fn_args.right_value.values[t]
  /\ Called("operator+") =>
       /\ fn_result.value.available_types = fn_args.left.available_types \cap fn_args.right_value.available_types
       /\ \A t \in DataType : fn_result.value.values[t] = fn_args.left.values[t] + fn_args.right_value.values[t]
  /\ Called("operator/") =>
       /\ fn_result.value.available_types = fn_args.left.available_types
       /\ \A t \in DataType : fn_result.value.values[t] = TruncDiv(fn_args.left.values[t], fn_args.divider)

\* C22: every synthetic Sample emitted between two consecutive accepted
\* Samples previous and current has a presence mask equal to the union of
\* the masks of previous and current, for every smoothness and every step.
C22_SyntheticMaskIsUnion ==
  [][SmoothStep =>
       \A i \in 2 .. Len(StepSamples) :
         /\ StepSamples[i].real = 0
         /\ GetTypes(StepSamples[i].fd) = GetTypes(StepPrevious) \cup GetTypes(StepCurrent)]_vars

\* a synthetic Sample was emitted after a real one with another mask
C22_Witness ==
  \E i \in 2 .. Len(exported) :
    /\ exported[i].real = 0
    /\ exported[i - 1].real # 0
    /\ GetTypes(exported[i].fd) # GetTypes(exported[i - 1].fd)

\* number / divider written out in full and cut after k digits behind the point
CutRendering(number, divider, k) ==
  LET full == FullRendering(number, divider)
  IN SubSeq(full, 1, FindDot(full) + 1 + k)

\* the call ExportToVtt makes for the distance (precision 2) or the speed (precision 1)
DistanceOrSpeedCall ==
  /\ fn_args.value.floating
  /\ \/ /\ fn_args.format \in {kMetricFormat[kTypeDistance + 1], kImperialFormat[kTypeDistance + 1]}
        /\ fn_args.value.precision = 2
     \/ /\ fn_args.format \in {kMetricFormat[kTypeSpeed + 1], kImperialFormat[kTypeSpeed + 1]}
        /\ fn_args.value.precision = 1

\* C23: in cue output distance and speed are rendered by truncation and
\* never by rounding: the number written is the full-precision decimal
\* rendering cut to the decimal budget (2 for distance, 1 for speed), so
\* 0.129 km is written as 0.12 and 1.26 km/h as 1.2.
C23_CueValuesTruncated ==
  (Called("format_value_suffix") /\ DistanceOrSpeedCall /\ fn_result.value.size > 0) =>
    LET text == fn_result.value.text
        suffix == fn_args.format.first
        cut == CutRendering(fn_args.value.number, fn_args.value.divider, fn_args.value.precision)
    IN /\ Len(text) >= Len(cut) + Len(suffix)
       /\ SubSeq(text, Len(text) - Len(suffix) - Len(cut) + 1, Len(text) - Len(suffix)) = cut

(***************************************************************************)
(* Properties of the end of a Convert call and of the whole sequence of    *)
(* Samples handed to Export.                                               *)
(***************************************************************************)
\* the last Sample handed to Export
LastExported == exported[Len(exported)]

\* C24: on Success with at least one accepted record, the last accepted
\* record is emitted exactly once, after every other emitted Sample, with
\* timestamp-next = its timestamp + 1000; the trailer of the format (the JSON
\* metadata, or the closing cue starting at that timestamp-next) is written
\* right after it and nothing after the trailer; when the call ends in Failed
\* the buffered last record is never emitted and nothing is returned.
C24_LastRecordThenTrailer ==
  /\ (EndedSuccess /\ Len(Accepted) >= 1) =>
       LET k == Len(Accepted)
           out == result.second
       IN /\ Len(exported) >= 1
          /\ LastExported.real = k
          /\ \A i \in 1 .. (Len(exported) - 1) : exported[i].real # k
          /\ GetValue(LastExported.fd, kTypeTimeStamp) = Accepted[k].ts
          /\ GetValue(LastExported.fd, kTypeTimeStampNext) = Accepted[k].ts + 1000
          /\ json_output =>
               /\ Len(out) >= 2
               /\ out[Len(out)] = JsonTrailer(used_data_types, first_fit_timestamp, offset, imperial)
               /\ out[Len(out) - 1] = ExportToJson(LastExported.fd, imperial)
               /\ Len(SelectKind(out, "meta")) = 1
          /\ vtt_output =>
               /\ Len(out) >= 2
               /\ out[Len(out)] = MessageCue("end", Accepted[k].ts + 1000, Accepted[k].ts + 61000)
               /\ out[Len(out) - 1] = ExportToVtt(LastExported.fd, imperial)
               /\ Len(SelectKind(out, "end")) = 1
  /\ EndedFailed =>
       /\ \A i \in 1 .. Len(exported) : exported[i].real # Len(Accepted)
       /\ result.second = <<>>

\* a subtitle call with smoothing that returned Success after three records
C24_Witness ==
  /\ EndedSuccess
  /\ vtt_output
  /\ smoothness >= 1
  /\ Len(Accepted) = 3
  /\ result.second[Len(result.second)].kind = "end"
  /\ LastExported.real = 3

\* a call that ended in Failed with a record still buffered
C24_WitnessFailed ==
  /\ EndedFailed
  /\ Len(Accepted) >= 2
  /\ previous_fot_data_ptr # "nullptr"

\* the record numbers of the Samples in xs that are records, in order
RECURSIVE RealOf(_)
RealOf(xs) ==
  IF xs = <<>> THEN <<>>
  ELSE (IF Head(xs).real > 0 THEN <<Head(xs).real>> ELSE <<>>) \o RealOf(Tail(xs))

\* C25: when Convert ends in Success with k accepted telemetry records and
\* smoothness n, the number of Samples handed to the formatter is 0 for k = 0
\* and (k - 1) * (n + 1) + 1 for k >= 1, and the accepted records are among
\* them in input order, each exactly once.
C25_SampleCount ==
  EndedSuccess =>
    LET k == Len(Accepted)
        n == smoothness
    IN /\ Len(exported) = IF k = 0 THEN 0 ELSE (k - 1) * (n + 1) + 1
       /\ RealOf(exported) = [i \in 1 .. k |-> i]
       /\ \A i \in 1 .. Len(exported) :
            exported[i].real > 0 =>
              GetValue(exported[i].fd, kTypeTimeStamp) = Accepted[exported[i].real].ts

\* Success with smoothing, a dropped record and two accepted ones
C25_Witness ==
  /\ EndedSuccess
  /\ smoothness = MaxSmoothness
  /\ Len(records) = 3
  /\ Len(Accepted) = 2
  /\ Len(exported) = smoothness + 2

\* C26: for every stream with strictly increasing device timestamps, every
\* offset and every smoothness, the time spans of the emitted Samples tile
\* the output timeline without gaps or overlaps: of two Samples emitted one
\* after the other, the timestamp-next of the earlier one is the timestamp of
\* the later one.
C26_SpansTile ==
  StrictlyIncreasing =>
    \A i \in 1 .. (Len(exported) - 1) :
      GetValue(exported[i].fd, kTypeTimeStampNext) = GetValue(exported[i + 1].fd, kTypeTimeStamp)

\* C27: for every sequence of device timestamps, increasing or not, every
\* offset and every smoothness, each Sample handed to the formatter has
\* 0 <= timestamp <= timestamp-next, so Time is never constructed from a
\* negative millisecond count.
C27_TimestampsOrdered ==
  \A i \in 1 .. Len(exported) :
    /\ 0 <= GetValue(exported[i].fd, kTypeTimeStamp)
    /\ GetValue(exported[i].fd, kTypeTimeStamp) <= GetValue(exported[i].fd, kTypeTimeStampNext)

\* C28: for every Sample with the altitude present (every raw value, those
\* that are no multiple of 5 and those below 2500 included) and both unit
\* systems, the JSON formatter and the cue formatter render the same integer
\* altitude.
C28_SameAltitudeInBothFormats ==
  /\ (Called("ExportToJson") /\ kTypeAltitude \in GetTypes(fn_args.fd)) =>
       /\ ~ExportToVttThrows(fn_args.fd)
       /\ fn_result.value.body[kTypeAltitude] = ExportToVtt(fn_args.fd, fn_args.imperial).body[kTypeAltitude]
  /\ (Called("ExportToVtt") /\ kTypeAltitude \in GetTypes(fn_args.fd)) =>
       /\ ~fn_result.throws
       /\ fn_result.value.body[kTypeAltitude] = ExportToJson(fn_args.fd, fn_args.imperial).body[kTypeAltitude]

(***************************************************************************)
(* DataSourceMemory on its own: an object over count_ bytes and a sequence *)
(* of ReadData calls with one Buffer.  count_, position_ and data_size are *)
(* the members of the object and of the buffer; fn_args holds the bytes    *)
(* and the capacity of the buffer, fn_result the calls made so far.        *)
(***************************************************************************)
\* largest count_ of the sources
MaxCount == 6
\* largest buffer_.size() of the Buffer
MaxCapacity == 4
\* ReadData calls made on one object
MaxReads == 8

\* the bytes at buffer_ptr_: byte i has the value i
SourceBytes(count) == [i \in 1 .. count |-> i]

\* ReadData with the test for the end of the data one byte late
MemoryReadDataLate(buffer_ptr, count, position, capacity) ==
  LET remaining_data == count - position
      data_to_copy == IF capacity > remaining_data THEN remaining_data ELSE capacity
  IN IF 0 = remaining_data
     THEN [status |-> "kError", data |-> <<>>, position |-> position]
     ELSE [status |-> IF capacity > remaining_data THEN "kEndOfFile" ELSE "kContinueRead",
           data |-> SubSeq(buffer_ptr, position + 1, position + data_to_copy),
           position |-> position + data_to_copy]

\* DataSourceMemory::ReadData(buffer): the status returned, the bytes
\* buffer.GetDataPtr()[0 .. GetDataSize()) and position_ after the call
MemoryReadData(buffer_ptr, count, position, capacity) ==
  LET remaining_data == count - position
      data_to_copy == IF capacity >= remaining_data THEN remaining_data ELSE capacity
  IN IF 0 = remaining_data
     THEN [status |-> "kError", data |-> <<>>, position |-> position]
     ELSE [status |-> IF capacity >= remaining_data THEN "kEndOfFile" ELSE "kContinueRead",
           data |-> SubSeq(buffer_ptr, position + 1, position + data_to_copy),
           position |-> position + data_to_copy]

InitSource ==
  /\ output_type = "none"
  /\ offset = 0
  /\ smoothness = 0
  /\ collect_data_types = AllTypes
  /\ imperial = FALSE
  /\ count_ \in 0 .. MaxCount
  /\ position_ = 0
  /\ data_size = 0
  /\ fit_status = "FIT_CONVERT_CONTINUE"
  /\ messages = 0
  /\ used_data_types = {}
  /\ file_items = 0
  /\ non_msg_counter = 0
  /\ first_fit_timestamp = 0
  /\ first_video_timestamp = 0
  /\ slots = [s \in {"new_fit_data", "previous_fit_data"} |-> EmptyFitData]
  /\ new_fit_data_ptr = "new_fit_data"
  /\ previous_fot_data_ptr = "nullptr"
  /\ write_buffer = <<>>
  /\ result = [first |-> "kError", second |-> <<>>]
  /\ pc = "start"
  /\ records = <<>>
  /\ exported = <<>>
  /\ fn = "DataSourceMemory::ReadData"
  /\ \E capacity \in 1 .. MaxCapacity : fn_args = [buffer_ptr_ |-> SourceBytes(count_), capacity |-> capacity]
  /\ fn_result = <<>>
  /\ tool = <<>>
  /\ calls = <<>>
  /\ decoder = <<>>

\* data_source_ptr->ReadData(data_buffer)
SourceReadData ==
  LET read == MemoryReadData(fn_args.buffer_ptr_, count_, position_, fn_args.capacity)
  IN /\ fn = "DataSourceMemory::ReadData"
     /\ Len(fn_result) < MaxReads
     /\ position_' = read.position
     /\ data_size' = Len(read.data)
     /\ fn_result' = Append(fn_result, [from |-> position_, status |-> read.status, data |-> read.data])
     /\ UNCHANGED <<fn, fn_args, tool, parallel, args, count_, fit_status, messages, used_data_types,
                    file_items, non_msg_counter, first_fit_timestamp, first_video_timestamp, slots,
                    new_fit_data_ptr, previous_fot_data_ptr, write_buffer, result, pc, records, exported>>

NextSource == SourceReadData

SpecSource == InitSource /\ [][NextSource]_vars

\* the chunks of the calls, one after the other
RECURSIVE Delivered(_)
Delivered(reads) == IF reads = <<>> THEN <<>> ELSE Head(reads).data \o Delivered(Tail(reads))

Min(a, b) == IF a < b THEN a ELSE b

\* C29: for a DataSourceMemory over count bytes and any sequence of ReadData
\* calls with a buffer of capacity c > 0, position_ never exceeds count_;
\* each call delivers min(c, remaining) bytes starting at position_, so that
\* the chunks of all calls together are the bytes of the source in order; a
\* call returns kEndOfFile exactly when it delivers the last remaining
\* bytes, kContinueRead when bytes remain afterwards; and every call made
\* with nothing remaining, the first call on an empty source included,
\* returns kError with data size 0 and leaves position_ unchanged.
C29_MemoryReadData ==
  LET c == fn_args.capacity
      n == Len(fn_result)
      after(i) == IF i = n THEN position_ ELSE fn_result[i + 1].from
  IN /\ position_ <= count_
     /\ Delivered(fn_result) = SubSeq(fn_args.buffer_ptr_, 1, position_)
     /\ n >= 1 => data_size = Len(fn_result[n].data)
     /\ (\E i \in 1 .. n : fn_result[i].status = "kEndOfFile") => Delivered(fn_result) = fn_args.buffer_ptr_
     /\ \A i \in 1 .. n :
          LET call == fn_result[i]
              remaining == count_ - call.from
          IN IF remaining = 0
             THEN call.status = "kError" /\ call.data = <<>> /\ after(i) = call.from
             ELSE /\ Len(call.data) = Min(c, remaining)
                  /\ call.data = SubSeq(fn_args.buffer_ptr_, call.from + 1, call.from + Len(call.data))
                  /\ after(i) = call.from + Len(call.data)
                  /\ call.status = IF after(i) = count_ THEN "kEndOfFile" ELSE "kContinueRead"

\* a source read in more than one chunk, the last one filling the buffer
\* exactly, and read again after its end
C29_Witness ==
  /\ Len(fn_result) >= 4
  /\ fn_result[1].status = "kContinueRead"
  /\ \E i \in 2 .. (Len(fn_result) - 2) :
       /\ fn_result[i].status = "kEndOfFile"
       /\ Len(fn_result[i].data) = fn_args.capacity
       /\ fn_result[i + 1].status = "kError"
       /\ fn_result[i + 2].status = "kError"

\* the first call on an empty source
C29_WitnessEmpty ==
  /\ count_ = 0
  /\ Len(fn_result) >= 1
  /\ fn_result[1].status = "kError"

(***************************************************************************)
(* Termination.  Convert is sequential code: whenever a step of the call   *)
(* is possible the call takes one, which is weak fairness of Next.  The    *)
(* source is finite (count_ bytes) and the decoder hands out finitely many *)
(* messages (MaxMessages).                                                 *)
(***************************************************************************)
SpecLive == Init /\ [][Next]_vars /\ WF_vars(Next)

\* C30: Convert terminates for every finite input: whatever the decoder
\* returns, the read/decode loop is left after finitely many steps and the
\* call reaches a terminal state, Success or Failed, truncated input where
\* the decoder never signals the end of the file included.
C30_ReachesSuccessOrFailed == <>(EndedSuccess \/ EndedFailed)

====
